---------------------------- MODULE Spec2Model ----------------------------
(***************************************************************************)
(* ZombieFinder: the zombie-ownership correlation engine.                  *)
(*                                                                         *)
(*   AllHandlesSystemwide::Update   the system-wide handle snapshot, with  *)
(*                                  its probe and its retry loop (HeapMem  *)
(*                                  owns the buffer)                       *)
(*   ZombieHandles::AcquireNewHandlesToExistingZombies                     *)
(*                                  discovery of the zombie processes      *)
(*   ZombieOwners::Update           the two correlation passes, the sorted *)
(*                                  view and the unexplained zombies       *)
(*                                                                         *)
(*   wmain                          the command line, the clock            *)
(*   HeapMem, Ago, LookupServicesByPID                                     *)
(*                                  the utilities they use                 *)
(*                                                                         *)
(* The specifications drive the same actions with different inputs:        *)
(* SpecSnapshot (the snapshot object alone, sizes up to the 32-bit limit), *)
(* SpecSnapshotFair (the same, the retry loop under fairness),             *)
(* SpecDiscovery (the discovery object alone, exit times around the age    *)
(* threshold), SpecLifetime (the same object up to its destruction),       *)
(* SpecOwners (one ZombieOwners::Update from construction),                *)
(* SpecRepeat (several Updates on one ZombieOwners), SpecReport (wmain's   *)
(* clock reading followed by one Update), SpecCmdLine (wmain on every      *)
(* short command line), and the utilities on their own: SpecHeapMem,       *)
(* SpecAgo and SpecServices (the pid-to-services lookup).                  *)
(***************************************************************************)
EXTENDS Integers, Sequences, FiniteSets, TLC

VARIABLES
    \* ---- AllHandlesSystemwide (and its HeapMem m_Mem) ----
    sn_pc,          \* position in AllHandlesSystemwide::Update
    m_Mem,          \* HeapMem: [m_pMem, m_nSize]
    sn_buf,         \* what the block m_pMem points to holds
    ntStat,         \* local NTSTATUS of Update
    returnLength,   \* local ULONG, written by the kernel
    sysInfoLength,  \* local ULONG, the size allocated and passed to the query
    sn_ret,         \* what the last Update returned: [ok, sErrorInfo]
    sn_issued,      \* the data query issued last (length passed, size the
                    \* kernel had reported, size of the buffer), or none
    sn_retries,     \* data queries of this Update answered 'buffer too small'
    sn_probe,       \* the status the size probe of this Update returned, or "none"
    sn_calls        \* Update calls made on this object

snVars == <<sn_pc, m_Mem, sn_buf, ntStat, returnLength, sysInfoLength,
            sn_ret, sn_issued, sn_retries, sn_probe, sn_calls>>

VARIABLES
    \* ---- ZombieHandles, and the arguments of its Acquire call ----
    zh_pc,                  \* position in AcquireNewHandlesToExistingZombies
    nAgeInSeconds,          \* the age threshold passed in
    ulNow,                  \* the time read when discovery starts
    m_ZombieHandleLookup,   \* handle -> ZombieProcessThreadInfo
    zombiePidLookup,        \* process id -> ZombieProcessThreadInfo (the caller's)
    processEnumErrors,      \* the warnings of the enumeration (the caller's)
    zh_nZombieProcesses,    \* ZombieHandles::m_nZombieProcesses
    zh_nTotalProcesses,     \* ZombieHandles::m_nTotalProcesses
    hPrevProcess,           \* local HANDLE
    bClosePrevProcess,      \* local bool
    zh_ntGNP,               \* local NTSTATUS: what NtGetNextProcess returned last
    zh_ret,                 \* what the last Acquire call returned
    zh_calls,               \* Acquire calls made on this object
    procHandles,            \* kernel: the handles discovery has open in this
                            \* process, each with the object it refers to
    enumerated,             \* kernel: the processes NtGetNextProcess returned
                            \* in this call, in order
    handleLog               \* kernel: the handles discovery opened and closed
                            \* since a call last started with none of them open
                            \* since this call began, in order

zhVars == <<zh_pc, nAgeInSeconds, ulNow, m_ZombieHandleLookup, zombiePidLookup,
            processEnumErrors, zh_nZombieProcesses, zh_nTotalProcesses,
            hPrevProcess, bClosePrevProcess, zh_ret, zh_calls, procHandles,
            enumerated, handleLog, zh_ntGNP>>

VARIABLES
    \* ---- ZombieOwners, and the thread it runs on ----
    zo_pc,                          \* position in ZombieOwners::Update
    zo_retval,                      \* retval and sErrorInfo of Update_Impl
    zo_ret,                         \* what Update returned
    m_owners,                       \* process id -> ZombieOwner_t
    m_ownersSorted,                 \* pointers into m_owners (the keys pointed to)
    m_unexplained,                  \* list of ZombieProcessThreadInfo
    m_nZombieProcessesAndThreads,
    m_nZombieProcesses,
    m_nTotalProcesses,
    impersonating,                  \* the thread has a token of its own
    debugPrivilege,                 \* Debug Programs is enabled in that token
    processDebugPrivilege,          \* Debug Programs is enabled in the process token
    zo_input,                       \* what the correlation passes were given:
                                    \* the snapshot's entries, the handle lookup
                                    \* and the process ids discovery recorded
    zo_calls                        \* Update calls made on this object

zoVars == <<zo_pc, zo_retval, zo_ret, m_owners, m_ownersSorted, m_unexplained,
            m_nZombieProcessesAndThreads, m_nZombieProcesses, m_nTotalProcesses,
            impersonating, debugPrivilege, processDebugPrivilege, zo_input,
            zo_calls>>

VARIABLES
    \* ---- wmain ----
    cl_pc,              \* position in wmain
    argv,               \* argv[1] .. argv[argc - 1], each a string of character codes
    ixArg,
    bDetails,
    bCsv,
    bThreadsReport,
    nExitAgeInSecs,
    bOut_toFile,
    sOutFile,
    sDiagDirectory,
    cl_exit,            \* the exit code and the error text written before the usage
    cl_report,          \* the report written to the output stream
    cl_seen             \* the switches the parsing loop recognised

clVars == <<cl_pc, argv, ixArg, bDetails, bCsv, bThreadsReport, nExitAgeInSecs,
            bOut_toFile, sOutFile, sDiagDirectory, cl_exit, cl_report, cl_seen>>

VARIABLES
    \* ---- a HeapMem object on its own, and the process heap ----
    hm_Mem,             \* the object: m_pMem, m_nSize
    hm_buf,             \* what its block holds
    hm_live,            \* heap: blocks HeapAlloc returned that HeapFree was not
                        \* given since
    hm_last,            \* the last call: its name, its argument, whether the
                        \* object held a block, whether HeapFree was called,
                        \* and what the call returned
    hm_calls            \* calls made on the object

hmVars == <<hm_Mem, hm_buf, hm_live, hm_last, hm_calls>>

VARIABLES
    \* ---- Ago ----
    ago_n,              \* the argument, nSecondsAgo
    ago_out             \* what the call put in the stream and returned

agoVars == <<ago_n, ago_out>>

VARIABLES
    \* ---- wmain: the zombie report ----
    wm_ulNow            \* local ULONGLONG ulNow, 0 until the clock is read

VARIABLES
    \* ---- the pid-to-services lookup ----
    ServiceLookupByPID, \* static map: process id -> list of service names
    bInitialized,       \* static bool
    svc_log             \* the calls made so far: what each was given, whether
                        \* it built the lookup, and what it returned

svcVars == <<ServiceLookupByPID, bInitialized, svc_log>>

\* The objects and functions that are exercised on their own, and wmain's
\* clock.
utilVars == <<hmVars, agoVars, wm_ulNow, svcVars>>

vars == <<snVars, zhVars, zoVars, clVars, utilVars>>

-----------------------------------------------------------------------------
(* ULONG arithmetic.  A ULONG is 32 bits wide; it is kept as two 16-bit     *)
(* limbs so that the values around 2^32 the overflow check is about can be  *)
(* computed with.                                                           *)

Limb == 256 * 256

U32(h, l) == [hi |-> h, lo |-> l]

Zero32 == U32(0, 0)

\* x / 4 on a ULONG
Div4(x) == U32(x.hi \div 4, ((x.hi % 4) * Limb + x.lo) \div 4)

\* x + y with the carry out of bit 31 kept
AddWide(x, y) ==
    LET lo == x.lo + y.lo
        hi == x.hi + y.hi + (lo \div Limb)
    IN  [carry |-> hi \div Limb, hi |-> hi % Limb, lo |-> lo % Limb]

\* x + y as the machine computes it on ULONGs: modulo 2^32
Add32(x, y) == LET s == AddWide(x, y) IN U32(s.hi, s.lo)

\* x < y on ULONGs
Less32(x, y) == x.hi < y.hi \/ (x.hi = y.hi /\ x.lo < y.lo)

-----------------------------------------------------------------------------
(* HeapMem *)

NullPtr == [null |-> TRUE]
Block   == [null |-> FALSE]

HeapMemInit == [m_pMem |-> NullPtr, m_nSize |-> Zero32]

NoBuffer  == [state |-> "none",    Handles |-> <<>>]
Garbage   == [state |-> "garbage", Handles |-> <<>>]
\* A block nothing has initialized, read as a handle table: any bytes.
Uninitialized(t) == [state |-> "garbage", Handles |-> t]
Filled(t) == [state |-> "filled",  Handles |-> t]

(* What the heap calls can answer.  GetProcessHeap returns the default heap *)
(* recorded in the process environment block, which exists from before the *)
(* program's first instruction to its last, and HeapFree is handed a block  *)
(* that HeapAlloc returned from that heap: the code's branches for their    *)
(* failure are kept below, the system never takes them.  HeapAlloc fails    *)
(* when memory is exhausted.                                                *)
GetProcessHeapOutcomes == {TRUE}
HeapFreeOutcomes       == {TRUE}
HeapAllocOutcomes      == {TRUE, FALSE}

HeapEnv == [heap : GetProcessHeapOutcomes, free : HeapFreeOutcomes,
            alloc : HeapAllocOutcomes]

\* HeapMem::Dealloc: [mem, buf, ok], and whether HeapFree was called
Dealloc(mem, buf, e) ==
    IF mem.m_pMem # NullPtr
    THEN IF ~e.heap
         THEN [mem |-> mem, buf |-> buf, ok |-> FALSE, freed |-> FALSE]
         ELSE [mem |-> HeapMemInit, buf |-> NoBuffer, ok |-> e.free, freed |-> TRUE]
    ELSE [mem |-> mem, buf |-> buf, ok |-> TRUE, freed |-> FALSE]

\* (mutant) the block held is not freed first
Alloc_KeepPrevious(mem, buf, nBytes, e) ==
    IF ~e.heap THEN [mem |-> mem, buf |-> buf, ok |-> FALSE, freed |-> FALSE]
    ELSE IF e.alloc
         THEN [mem |-> [m_pMem |-> Block, m_nSize |-> nBytes],
               buf |-> Garbage, ok |-> TRUE, freed |-> FALSE]
         ELSE [mem |-> [m_pMem |-> NullPtr, m_nSize |-> mem.m_nSize],
               buf |-> NoBuffer, ok |-> FALSE, freed |-> FALSE]

\* HeapMem::Alloc: [mem, buf, ok], and whether HeapFree was called
Alloc(mem, buf, nBytes, e) ==
    LET d == Dealloc(mem, buf, e) IN
    IF ~d.ok THEN [mem |-> d.mem, buf |-> d.buf, ok |-> FALSE, freed |-> d.freed]
    ELSE IF ~e.heap
    THEN [mem |-> d.mem, buf |-> d.buf, ok |-> FALSE, freed |-> d.freed]
    ELSE IF e.alloc
         THEN [mem |-> [m_pMem |-> Block, m_nSize |-> nBytes],
               buf |-> Garbage, ok |-> TRUE, freed |-> d.freed]
         ELSE [mem |-> [m_pMem |-> NullPtr, m_nSize |-> d.mem.m_nSize],
               buf |-> NoBuffer, ok |-> FALSE, freed |-> d.freed]

-----------------------------------------------------------------------------
(* AllHandlesSystemwide *)

STATUS_SUCCESS              == "STATUS_SUCCESS"
STATUS_INFO_LENGTH_MISMATCH == "STATUS_INFO_LENGTH_MISMATCH"
STATUS_ACCESS_DENIED        == "STATUS_ACCESS_DENIED"

\* The statuses NtQuerySystemInformation answers with: success, 'buffer too
\* small', and one status that is neither.
QueryStatuses == {STATUS_SUCCESS, STATUS_INFO_LENGTH_MISMATCH, STATUS_ACCESS_DENIED}

\* Data queries of one Update the kernel answers with 'buffer too small'.
MaxRetries == 2
\* Update calls on one AllHandlesSystemwide object.
MaxSnUpdates == 2

NotReturned == [called |-> FALSE, ok |-> FALSE, sErrorInfo |-> ""]
Returned(ok, err) == [called |-> TRUE, ok |-> ok, sErrorInfo |-> err]

\* No data query issued yet.  Of a query issued: the length passed, the size of
\* the buffer passed, the required size the kernel had reported last, and the
\* required size it had reported before the query that preceded this one.
NoQuery == [any |-> FALSE, len |-> Zero32, bufSize |-> Zero32,
            required |-> Zero32, prevRequired |-> Zero32]

\* A handle table entry: SYSTEM_HANDLE_TABLE_ENTRY_INFO_EX
HandleEntry(pid, h, obj) == [UniqueProcessId |-> pid, HandleValue |-> h, Object |-> obj]

\* The state of a constructed AllHandlesSystemwide on which Update is not running.
SnInit ==
    /\ sn_pc = "idle"
    /\ m_Mem = HeapMemInit
    /\ sn_buf = NoBuffer
    /\ ntStat = STATUS_SUCCESS
    /\ returnLength = Zero32
    /\ sysInfoLength = Zero32
    /\ sn_ret = NotReturned
    /\ sn_issued = NoQuery
    /\ sn_retries = 0
    /\ sn_probe = "none"
    /\ sn_calls = 0

\* AllHandlesSystemwide::Clear
Clear(mem, buf, e) == Dealloc(mem, buf, e)

\* Update returns: its locals go out of scope.
SnReturn(ok, err) ==
    /\ sn_pc' = "idle"
    /\ sn_ret' = Returned(ok, err)
    /\ ntStat' = STATUS_SUCCESS
    /\ returnLength' = Zero32
    /\ sysInfoLength' = Zero32

\* Update is entered: the error text and the buffer are cleared and
\* NtQuerySystemInformation is resolved.
SnUpdateEnter(ResolveOutcomes) ==
    /\ sn_pc = "idle"
    /\ \E e \in HeapEnv, resolved \in ResolveOutcomes :
          LET c == Clear(m_Mem, sn_buf, e) IN
          /\ m_Mem' = c.mem
          /\ sn_buf' = c.buf
          /\ sn_issued' = NoQuery
          /\ sn_retries' = 0
          /\ sn_probe' = "none"
          /\ sn_calls' = sn_calls + 1
          /\ IF resolved
             THEN /\ sn_pc' = "probe"
                  /\ sn_ret' = NotReturned
                  /\ UNCHANGED <<ntStat, returnLength, sysInfoLength>>
             ELSE SnReturn(FALSE, "Couldn't get NtQuerySystemInformation")

\* (mutant) only an error status fails the probe; success is let through
ProbeFailed_ErrorsOnly(st) == st \notin {STATUS_INFO_LENGTH_MISMATCH, STATUS_SUCCESS}

\* Problem if the API returns anything but STATUS_INFO_LENGTH_MISMATCH
ProbeFailed(st) == STATUS_INFO_LENGTH_MISMATCH # st

\* The first call, with the minimal buffer.
SnProbe(Sizes) ==
    /\ sn_pc = "probe"
    /\ \E st \in QueryStatuses, r \in Sizes :
          /\ sn_probe' = st
          /\ IF ProbeFailed(st)
             THEN /\ SnReturn(FALSE, "NtQuerySystemInformation first call failed")
                  /\ UNCHANGED <<m_Mem, sn_buf, sn_issued, sn_retries, sn_calls>>
             ELSE /\ ntStat' = st
                  /\ returnLength' = r
                  /\ sn_pc' = "loop"
                  /\ UNCHANGED <<m_Mem, sn_buf, sysInfoLength, sn_ret, sn_issued,
                                 sn_retries, sn_calls>>

\* (mutant) exactly what was last demanded, without the 25%
NextLength_Unpadded(r) == r

\* 25% higher than last demanded
NextLength(r) == Add32(r, Div4(r))

\* (mutant) the overflow check left out
Overflowed_Never(len, r) == FALSE

\* Unlikely to overflow, but check anyway
Overflowed(len, r) == Less32(len, r)

\* The loop test, and one pass through the top of the retry loop: the
\* previous buffer is released, the next size is computed and checked, the
\* buffer is allocated.
SnAllocate ==
    /\ sn_pc = "loop"
    /\ \E e \in HeapEnv :
          LET c   == Clear(m_Mem, sn_buf, e)
              len == NextLength(returnLength)
              a   == Alloc(c.mem, c.buf, len, e)
          IN  IF STATUS_INFO_LENGTH_MISMATCH # ntStat
              THEN /\ SnReturn(TRUE, "")
                   /\ UNCHANGED <<m_Mem, sn_buf, sn_issued, sn_retries, sn_probe, sn_calls>>
              ELSE IF Overflowed(len, returnLength)
              THEN /\ m_Mem' = c.mem
                   /\ sn_buf' = c.buf
                   /\ SnReturn(FALSE, "Unable to allocate memory: integer overflow")
                   /\ UNCHANGED <<sn_issued, sn_retries, sn_probe, sn_calls>>
              ELSE IF ~a.ok
              THEN /\ m_Mem' = a.mem
                   /\ sn_buf' = a.buf
                   /\ SnReturn(FALSE, "HeapAlloc failed")
                   /\ UNCHANGED <<sn_issued, sn_retries, sn_probe, sn_calls>>
              ELSE /\ m_Mem' = a.mem
                   /\ sn_buf' = a.buf
                   /\ sysInfoLength' = len
                   /\ sn_pc' = "query"
                   /\ UNCHANGED <<ntStat, returnLength, sn_ret, sn_issued,
                                  sn_retries, sn_probe, sn_calls>>

\* The data query, with the buffer just allocated: m_Mem.Get() and
\* sysInfoLength are passed, the kernel answers with a status and a size.
\* The code does not count the retries; sn_retries does, up to MaxRetries
\* ("MaxRetries or more").
SnQuery(Statuses, Sizes, Tables) ==
    /\ sn_pc = "query"
    /\ sn_issued' = [any |-> TRUE, len |-> sysInfoLength,
                     bufSize |-> m_Mem.m_nSize,
                     required |-> returnLength,
                     prevRequired |-> sn_issued.required]
    /\ \E st \in Statuses, r \in Sizes :
          CASE st = STATUS_SUCCESS ->
                 /\ \E t \in Tables : sn_buf' = Filled(t)
                 /\ SnReturn(TRUE, "")
                 /\ UNCHANGED <<m_Mem, sn_retries, sn_probe, sn_calls>>
            [] st = STATUS_INFO_LENGTH_MISMATCH ->
                 /\ ntStat' = st
                 /\ returnLength' = r
                 /\ sn_retries' = IF sn_retries < MaxRetries
                                  THEN sn_retries + 1 ELSE sn_retries
                 /\ sn_pc' = "loop"
                 /\ UNCHANGED <<m_Mem, sn_buf, sysInfoLength, sn_ret, sn_probe, sn_calls>>
            [] OTHER ->
                 \* the block is kept; HeapAlloc did not clear it and the
                 \* kernel may have written to it
                 /\ \E t \in Tables \cup {<<>>} : sn_buf' = Uninitialized(t)
                 /\ SnReturn(FALSE, "NtQuerySystemInformation second call failed")
                 /\ UNCHANGED <<m_Mem, sn_retries, sn_probe, sn_calls>>

\* AllHandlesSystemwide::NumberOfHandles, on a buffer the kernel filled
NumberOfHandles(mem, buf) ==
    IF mem.m_pMem = NullPtr THEN 0 ELSE Len(buf.Handles)

\* (mutant) the index is taken to count from 1
HandleInfo_CountedFromOne(mem, buf, ix) ==
    IF mem.m_pMem = NullPtr THEN NullPtr
    ELSE IF ix = 0 \/ ix > Len(buf.Handles) THEN NullPtr
    ELSE buf.Handles[ix]

\* AllHandlesSystemwide::HandleInfo, ix counted from 0: the entry, or nullptr
HandleInfo(mem, buf, ix) ==
    IF mem.m_pMem = NullPtr THEN NullPtr
    ELSE IF ix >= Len(buf.Handles) THEN NullPtr
    ELSE buf.Handles[ix + 1]

-----------------------------------------------------------------------------
(* ZombieHandles *)

\* m[k] = v on an unordered_map: inserts, or overwrites the entry of k
MapPut(m, k, v) == [x \in DOMAIN m \cup {k} |-> IF x = k THEN v ELSE m[x]]

\* erase / close: the map without the keys in ks
MapRemove(m, ks) == [x \in DOMAIN m \ ks |-> m[x]]

EmptyMap == [x \in {} |-> 0]

\* The members of a set of numbers, lowest first.
RECURSIVE Ascending(_)
Ascending(S) ==
    IF S = {} THEN <<>>
    ELSE LET m == CHOOSE x \in S : \A y \in S : x <= y
         IN  <<m>> \o Ascending(S \ {m})

\* Processes one enumeration returns, and threads still in one process.
MaxProcs   == 2
MaxThreads == 1

NullHandle == 0

\* Handle values are multiples of 4; the pool holds every handle discovery can
\* have open at once (per process its handle and its threads', the handle of
\* the process being looked at and the one opened for the thread walk).
HandlePool == {4 * i : i \in 1 .. (MaxProcs * (MaxThreads + 1) + 2)}

\* The kernel hands out the lowest handle value that is free in the process,
\* so the value of a handle closed earlier is the next one handed out.
NewHandle(open) ==
    CHOOSE h \in HandlePool \ open : \A g \in HandlePool \ open : h <= g

\* Identities the kernel keeps unique: the id of the i-th process of an
\* enumeration, thread ids, and the addresses of process and thread objects.
EnumPid(i)      == 10 + i
TidOf(pid, k)   == 10 * pid + k
ProcObj(pid)    == 100 * pid
ThreadObj(pid, k) == 100 * pid + k

\* FILETIME ticks (100 ns) in a second
TicksPerSecond == 10000000
\* wmain's default for -secs
DefaultAgeInSecs == 3

\* The FILETIME clock when discovery reads it (on a scale TLC's integers hold).
Now == 100 * TicksPerSecond

STATUS_NO_MORE_ENTRIES == "STATUS_NO_MORE_ENTRIES"

\* Statuses that end the NtGetNextProcess loop.
EndStatuses == {STATUS_NO_MORE_ENTRIES, STATUS_ACCESS_DENIED}

\* ZombieProcessThreadInfo zombieInfo = { 0 }, then the times GetProcessTimes
\* gave, the ids, the parent's path and the image path
ZombieInfo(pid, exitTime) ==
    [PID |-> pid, TID |-> 0, sImagePath |-> <<"image", pid>>,
     createTime |-> pid, exitTime |-> exitTime, nThreads |-> 0,
     ParentPID |-> pid - 1, sParentImagePath |-> <<"parent", pid>>]

\* (mutant) the age test with a strict comparison: exactly nAgeInSeconds is too young
AgeTest_Strict(age, now, exit) ==
    (0 = age) \/ (now > exit /\ ((now - exit) \div TicksPerSecond) > age)

\* (mutant) the age test without the case of a zero threshold
AgeTest_NoZeroCase(age, now, exit) ==
    now > exit /\ ((now - exit) \div TicksPerSecond) >= age

\* if 0, don't filter any out; otherwise, ensure that exit time is more than
\* nAgeInSeconds seconds ago
AgeTest(age, now, exit) ==
    (0 = age) \/ (now > exit /\ ((now - exit) \div TicksPerSecond) >= age)

\* The tests a process passes to be taken for a zombie: the query succeeded,
\* IsProcessDeleting is set, the exit time is not 0, the age test holds.
\* (mutant) the status of the basic-information query is not looked at
IsZombie_IgnoreQueryStatus(d, age, now) ==
    /\ d.IsProcessDeleting
    /\ 0 # d.exitTime
    /\ AgeTest(age, now, d.exitTime)

\* (mutant) an exit time of zero is taken for an exit time
IsZombie_NoExitTimeCheck(d, age, now) ==
    /\ d.queryOk
    /\ d.IsProcessDeleting
    /\ AgeTest(age, now, d.exitTime)

IsZombie(d, age, now) ==
    /\ d.queryOk
    /\ d.IsProcessDeleting
    /\ 0 # d.exitTime
    /\ AgeTest(age, now, d.exitTime)

\* (mutant) the thread's record is put under the handle of its process
ThreadLoop_UnderProcessHandle(info, n, k, st) ==
    IF n = 0 THEN st
    ELSE LET hs == {h \in DOMAIN st.open : st.open[h] = ProcObj(info.PID)}
             hp == CHOOSE h \in hs : \A g \in hs : h <= g
         IN  [open   |-> st.open,
              lookup |-> MapPut(st.lookup, hp, [info EXCEPT !.TID = TidOf(info.PID, n)])]

\* (mutant) the threads are counted and nothing is recorded for them
ThreadLoop_CountOnly(info, n, k, st) == st

\* The NtGetNextThread loop: a handle to each thread of the process, each put
\* in the lookup with its thread id.  st = [open, lookup]; k threads done.
RECURSIVE ThreadLoop(_, _, _, _)
ThreadLoop(info, n, k, st) ==
    IF k >= n THEN st
    ELSE LET h == NewHandle(DOMAIN st.open)
             t == [info EXCEPT !.TID = TidOf(info.PID, k + 1)]
         IN  ThreadLoop(info, n, k + 1,
                        [open   |-> MapPut(st.open, h, ThreadObj(info.PID, k + 1)),
                         lookup |-> MapPut(st.lookup, h, t)])

\* (mutant) the lookup is cleared and its handles are left open
ReleaseAcquiredHandles_ClearOnly(open, lookup) ==
    [open |-> open, lookup |-> EmptyMap]

\* (mutant) the handles are closed and their entries stay in the lookup
ReleaseAcquiredHandles_CloseOnly(open, lookup) ==
    [open |-> MapRemove(open, DOMAIN lookup), lookup |-> lookup]

\* ZombieHandles::ReleaseAcquiredHandles: [open, lookup]
ReleaseAcquiredHandles(open, lookup) ==
    [open |-> MapRemove(open, DOMAIN lookup), lookup |-> EmptyMap]

\* What the kernel sees of the handles hs, in this order: each opened, or each
\* closed.  (The release step closes in the lookup's iteration order; the log
\* lists its closes lowest handle first.)
OpenEvents(hs)  == [i \in 1 .. Len(hs) |-> [op |-> "open", h |-> hs[i]]]
CloseEvents(hs) == [i \in 1 .. Len(hs) |-> [op |-> "close", h |-> hs[i]]]

NotReturnedZh == [called |-> FALSE, ok |-> FALSE, sErrorInfo |-> ""]

\* The state of a constructed ZombieHandles, with the caller's output
\* collections empty.
ZhInit ==
    /\ zh_pc = "idle"
    /\ nAgeInSeconds = 0
    /\ ulNow = 0
    /\ m_ZombieHandleLookup = EmptyMap
    /\ zombiePidLookup = EmptyMap
    /\ processEnumErrors = <<>>
    /\ zh_nZombieProcesses = 0
    /\ zh_nTotalProcesses = 0
    /\ hPrevProcess = NullHandle
    /\ bClosePrevProcess = FALSE
    /\ zh_ret = NotReturnedZh
    /\ zh_calls = 0
    /\ procHandles = EmptyMap
    /\ enumerated = <<>>
    /\ zh_ntGNP = STATUS_SUCCESS
    /\ handleLog = <<>>

\* Acquire returns: its locals go out of scope.
ZhReturn(ok, err) ==
    /\ zh_pc' = "idle"
    /\ zh_ret' = Returned(ok, err)
    /\ hPrevProcess' = NullHandle
    /\ bClosePrevProcess' = FALSE

\* AcquireNewHandlesToExistingZombies is entered: outputs and counts are
\* cleared, the handles of an earlier call released, the ntdll entry points
\* resolved and the clock read.
ZhAcquireEnter(Ages, ResolveOutcomes) ==
    /\ zh_pc = "idle"
    /\ \E age \in Ages, resolved \in ResolveOutcomes :
          LET r == ReleaseAcquiredHandles(procHandles, m_ZombieHandleLookup) IN
          /\ nAgeInSeconds' = age
          /\ zh_calls' = zh_calls + 1
          /\ zombiePidLookup' = EmptyMap
          /\ processEnumErrors' = <<>>
          /\ zh_nZombieProcesses' = 0
          /\ zh_nTotalProcesses' = 0
          /\ procHandles' = r.open
          /\ m_ZombieHandleLookup' = r.lookup
          /\ enumerated' = <<>>
          /\ zh_ntGNP' = STATUS_SUCCESS
          /\ handleLog' =
                 IF r.open = EmptyMap THEN <<>>
                 ELSE handleLog \o CloseEvents(Ascending(DOMAIN m_ZombieHandleLookup))
          /\ IF resolved
             THEN /\ ulNow' = Now
                  /\ zh_pc' = "enumerate"
                  /\ zh_ret' = NotReturnedZh
                  /\ hPrevProcess' = NullHandle
                  /\ bClosePrevProcess' = FALSE
             ELSE /\ ZhReturn(FALSE, "ERROR: Unable to load functions from ntdll.dll")
                  /\ UNCHANGED ulNow

\* One turn of the NtGetNextProcess loop: the kernel returns a handle to the
\* next process, d says what the queries on it answer.
ZhNextProcess(ProcInputs) ==
    /\ zh_pc = "enumerate"
    /\ Len(enumerated) < MaxProcs
    /\ \E d \in ProcInputs :
          LET pid      == EnumPid(Len(enumerated) + 1)
              hThis    == NewHandle(DOMAIN procHandles)
              opened   == MapPut(procHandles, hThis, ProcObj(pid))
              \* CloseHandle(hPrevProcess)
              open1    == IF bClosePrevProcess /\ NullHandle # hPrevProcess
                          THEN MapRemove(opened, {hPrevProcess}) ELSE opened
              zombie   == IsZombie(d, nAgeInSeconds, ulNow)
              info     == ZombieInfo(pid, d.exitTime)
              \* OpenProcess(PROCESS_QUERY_INFORMATION), the thread loop,
              \* CloseHandle(hProcessQI)
              hQI      == NewHandle(DOMAIN open1)
              walked   == ThreadLoop(info, d.nThreads, 0,
                                     [open   |-> MapPut(open1, hQI, ProcObj(pid)),
                                      lookup |-> m_ZombieHandleLookup])
              threads  == IF d.openQI
                          THEN [open   |-> MapRemove(walked.open, {hQI}),
                                lookup |-> walked.lookup, n |-> d.nThreads]
                          ELSE [open |-> open1, lookup |-> m_ZombieHandleLookup, n |-> 0]
              procInfo == [info EXCEPT !.TID = 0, !.nThreads = threads.n]
              closePrev  == IF bClosePrevProcess /\ NullHandle # hPrevProcess
                            THEN CloseEvents(<<hPrevProcess>>) ELSE <<>>
              threadWalk == IF zombie /\ d.openQI
                            THEN OpenEvents(<<hQI>>)
                                 \o OpenEvents(Ascending(DOMAIN walked.lookup
                                                         \ DOMAIN m_ZombieHandleLookup))
                                 \o CloseEvents(<<hQI>>)
                            ELSE <<>>
          IN  /\ zh_nTotalProcesses' = zh_nTotalProcesses + 1
              /\ handleLog' = handleLog \o OpenEvents(<<hThis>>) \o closePrev
                                        \o threadWalk
              /\ enumerated' = Append(enumerated,
                     [pid |-> pid, handle |-> hThis, queryOk |-> d.queryOk,
                      IsProcessDeleting |-> d.IsProcessDeleting,
                      exitTime |-> d.exitTime, openQI |-> d.openQI,
                      nThreads |-> d.nThreads])
              /\ hPrevProcess' = hThis
              /\ zh_ntGNP' = STATUS_SUCCESS
              /\ processEnumErrors' =
                     IF d.queryOk THEN processEnumErrors
                     ELSE Append(processEnumErrors,
                                 [what |-> "NtQueryInformationProcess failed during enumeration",
                                  n |-> zh_nTotalProcesses + 1])
              /\ IF zombie
                 THEN /\ zh_nZombieProcesses' = zh_nZombieProcesses + 1
                      /\ procHandles' = threads.open
                      /\ m_ZombieHandleLookup' = MapPut(threads.lookup, hThis, procInfo)
                      /\ zombiePidLookup' = MapPut(zombiePidLookup, pid, procInfo)
                      /\ bClosePrevProcess' = FALSE
                 ELSE /\ procHandles' = open1
                      /\ bClosePrevProcess' = TRUE
                      /\ UNCHANGED <<zh_nZombieProcesses, m_ZombieHandleLookup,
                                     zombiePidLookup>>
              /\ UNCHANGED <<zh_pc, nAgeInSeconds, ulNow, zh_ret, zh_calls>>

\* (mutant) the terminating status is not looked at
ReportEnumEnd_Never(errors, ntGNP, n) == errors

\* Report if terminating NTSTATUS value is other than STATUS_NO_MORE_ENTRIES
ReportEnumEnd(errors, ntGNP, n) ==
    IF STATUS_NO_MORE_ENTRIES # ntGNP
    THEN Append(errors, [what |-> "Process enumeration failed", n |-> n])
    ELSE errors

\* NtGetNextProcess returns something other than success: the loop ends, the
\* last handle is closed unless it was kept, a status other than 'no more
\* entries' is reported as a warning, and Acquire returns true.
ZhEnumEnd ==
    /\ zh_pc = "enumerate"
    /\ \E ntGNP \in EndStatuses :
          /\ zh_ntGNP' = ntGNP
          /\ procHandles' =
                 IF bClosePrevProcess /\ NullHandle # hPrevProcess
                 THEN MapRemove(procHandles, {hPrevProcess}) ELSE procHandles
          /\ handleLog' =
                 IF bClosePrevProcess /\ NullHandle # hPrevProcess
                 THEN handleLog \o CloseEvents(<<hPrevProcess>>) ELSE handleLog
          /\ processEnumErrors' =
                 ReportEnumEnd(processEnumErrors, ntGNP, zh_nTotalProcesses)
          /\ ZhReturn(TRUE, "")
          /\ UNCHANGED <<nAgeInSeconds, ulNow, m_ZombieHandleLookup, zombiePidLookup,
                         zh_nZombieProcesses, zh_nTotalProcesses, zh_calls,
                         enumerated>>

\* ~ZombieHandles: the handles still in the lookup are released; the object
\* takes no call afterwards.
ZhDestroy ==
    /\ zh_pc = "idle"
    /\ LET r == ReleaseAcquiredHandles(procHandles, m_ZombieHandleLookup) IN
          /\ procHandles' = r.open
          /\ m_ZombieHandleLookup' = r.lookup
    /\ handleLog' = handleLog \o CloseEvents(Ascending(DOMAIN m_ZombieHandleLookup))
    /\ zh_pc' = "destroyed"
    /\ UNCHANGED <<nAgeInSeconds, ulNow, zombiePidLookup, processEnumErrors,
                   zh_nZombieProcesses, zh_nTotalProcesses, hPrevProcess,
                   bClosePrevProcess, zh_ret, zh_calls, enumerated, zh_ntGNP>>

-----------------------------------------------------------------------------
(* ZombieOwners *)

\* GetCurrentProcessId: the process discovery runs in
CurrPID == 5

\* towlower on the letters A-Z; other codes are left as they are
ToLower(c) == IF c \in 65 .. 90 THEN c + 32 ELSE c

\* (mutant) a comparison that tells upper case from lower case
Wcsicmp_CaseSensitive(a, b) ==
    LET n    == IF Len(a) < Len(b) THEN Len(a) ELSE Len(b)
        diff == {i \in 1 .. n : a[i] # b[i]}
        k    == CHOOSE i \in diff : \A j \in diff : i <= j
    IN  IF diff # {} THEN (IF a[k] < b[k] THEN -1 ELSE 1)
        ELSE IF Len(a) < Len(b) THEN -1
        ELSE IF Len(a) > Len(b) THEN 1
        ELSE 0

\* _wcsicmp: the strings are compared code by code after lower-casing; the
\* result is negative, zero or positive
Wcsicmp(a, b) ==
    LET n    == IF Len(a) < Len(b) THEN Len(a) ELSE Len(b)
        diff == {i \in 1 .. n : ToLower(a[i]) # ToLower(b[i])}
        k    == CHOOSE i \in diff : \A j \in diff : i <= j
    IN  IF diff # {} THEN (IF ToLower(a[k]) < ToLower(b[k]) THEN -1 ELSE 1)
        ELSE IF Len(a) < Len(b) THEN -1
        ELSE IF Len(a) > Len(b) THEN 1
        ELSE 0

\* Sorts descending by handle count, then ascending by exe name and PID.
ZombieOwnerComparator(pA, pB) ==
    IF Len(pA.zombieOwningInfo) = Len(pB.zombieOwningInfo)
    THEN LET cmpResult == Wcsicmp(pA.sExeName, pB.sExeName)
         IN  IF 0 = cmpResult THEN pA.PID < pB.PID ELSE cmpResult < 0
    ELSE Len(pA.zombieOwningInfo) > Len(pB.zombieOwningInfo)

\* std::sort of pointers with ZombieOwnerComparator; owners is what the
\* pointers point into
RECURSIVE InsertInOrder(_, _, _)
InsertInOrder(p, s, owners) ==
    IF s = <<>> THEN <<p>>
    ELSE IF ZombieOwnerComparator(owners[p], owners[Head(s)]) THEN <<p>> \o s
    ELSE <<Head(s)>> \o InsertInOrder(p, Tail(s), owners)

RECURSIVE StdSort(_, _)
StdSort(s, owners) ==
    IF s = <<>> THEN <<>>
    ELSE InsertInOrder(Head(s), StdSort(Tail(s), owners), owners)

\* A pointer to a ZombieOwner_t that m_owners.clear() has destroyed.
Dangling == -1

\* Every arrangement of the elements of s.
Rearrangements(s) ==
    {[i \in 1 .. Len(s) |-> s[p[i]]] : p \in Permutations(1 .. Len(s))}

\* What std::sort can leave in the vector v of pointers: sorted by the
\* comparator when every pointer is to a record of owners; when the comparator
\* reads through a dangling pointer its answers are arbitrary, and so is the
\* arrangement.
SortOutcomes(v, owners) ==
    IF \E i \in DOMAIN v : v[i] = Dangling
    THEN Rearrangements(v)
    ELSE {StdSort(v, owners)}

\* The orders in which an unordered_map with the keys S can be iterated.
IterationOrders(S) ==
    {o \in [1 .. Cardinality(S) -> S] : \A i, j \in DOMAIN o : o[i] = o[j] => i = j}

\* What GetImagePathFromPID and GetFileNameFromFilePath give for a process:
\* "C:\ab", "C:\Zf", "C:\AB" as character codes, and their file names.
ImagePathOf(pid) == <<67, 58, 92>> \o
    (IF pid < CurrPID THEN <<97, 98>> ELSE IF pid = CurrPID THEN <<90, 102>> ELSE <<65, 66>>)

GetFileNameFromFilePath(path) ==
    LET seps == {i \in 1 .. Len(path) : path[i] = 92}
        last == CHOOSE i \in seps : \A j \in seps : j <= i
    IN  IF seps = {} THEN path ELSE SubSeq(path, last + 1, Len(path))

\* ZombieOwner_t owner = { 0 }, then its PID, image path and exe name; the
\* process hosts no service
NewOwner(pid) ==
    [PID |-> pid, sProcessImagePath |-> ImagePathOf(pid),
     sExeName |-> GetFileNameFromFilePath(ImagePathOf(pid)),
     pServiceList |-> NullPtr, zombieOwningInfo |-> <<>>]

ZombieOwningInfo(h, info) == [handleValue |-> h, zombieInfo |-> info]

\* Pass 1: the handles of the current process that discovery acquired give the
\* kernel object address of each zombie process and thread.
RECURSIVE Pass1(_, _, _, _, _)
Pass1(mem, buf, lookup, ix, addrLookup) ==
    IF ix >= NumberOfHandles(mem, buf) THEN addrLookup
    ELSE LET pHandleInfo == HandleInfo(mem, buf, ix) IN
         Pass1(mem, buf, lookup, ix + 1,
               IF /\ NullPtr # pHandleInfo
                  /\ pHandleInfo.UniqueProcessId = CurrPID
                  /\ pHandleInfo.HandleValue \in DOMAIN lookup
               THEN MapPut(addrLookup, pHandleInfo.Object,
                           lookup[pHandleInfo.HandleValue])
               ELSE addrLookup)

\* (mutant) every handle of the current process is left out
KeepHandle_NoneOfOurs(e, lookup) == e.UniqueProcessId # CurrPID

\* (mutant) the handle value is looked up whatever process the handle is in
KeepHandle_ByValueOnly(e, lookup) == e.HandleValue \notin DOMAIN lookup

\* The handle doesn't belong to the current process, or it belongs to the
\* current process but isn't one of those created in the ZombieHandles instance
KeepHandle(e, lookup) ==
    e.UniqueProcessId # CurrPID \/ e.HandleValue \notin DOMAIN lookup

\* (mutant) a new entry is made for the owner every time
OwnerMissing_Always(owners, pid) == TRUE

\* Have we added this PID to the set yet?
OwnerMissing(owners, pid) == pid \notin DOMAIN owners

\* (mutant) only a handle to the process itself explains a zombie
ExplainedPid_ProcessHandlesOnly(info) == IF info.TID = 0 THEN info.PID ELSE 0

\* The PID removed from the collection of zombies we don't have handles for
ExplainedPid(info) == info.PID

\* (mutant) nothing is removed from the pid lookup
ErasePid_Keep(pids, pid) == pids

\* zombiePidLookup.erase, if the PID is found
ErasePid(pids, pid) == IF pid \in DOMAIN pids THEN MapRemove(pids, {pid}) ELSE pids

\* Pass 2: other handles to the zombie objects are put under their owning
\* process.  st = [owners, pids]
RECURSIVE Pass2(_, _, _, _, _, _)
Pass2(mem, buf, lookup, addrLookup, ix, st) ==
    IF ix >= NumberOfHandles(mem, buf) THEN st
    ELSE LET pHandleInfo == HandleInfo(mem, buf, ix)
             pid      == pHandleInfo.UniqueProcessId
             iZombie  == addrLookup[pHandleInfo.Object]
             owners1  == IF OwnerMissing(st.owners, pid)
                         THEN MapPut(st.owners, pid, NewOwner(pid))
                         ELSE st.owners
             owners2  == [owners1 EXCEPT ![pid].zombieOwningInfo =
                             Append(@, ZombieOwningInfo(pHandleInfo.HandleValue, iZombie))]
         IN  Pass2(mem, buf, lookup, addrLookup, ix + 1,
                   IF /\ NullPtr # pHandleInfo
                      /\ pHandleInfo.Object \in DOMAIN addrLookup
                      /\ KeepHandle(pHandleInfo, lookup)
                   THEN [owners |-> owners2,
                         pids   |-> ErasePid(st.pids, ExplainedPid(iZombie))]
                   ELSE st)

NoInput == [any |-> FALSE, table |-> <<>>, lookup |-> EmptyMap, discovered |-> {}]

\* The state of a constructed ZombieOwners, on a thread that uses the token
\* of its process.
ZoInit ==
    /\ zo_pc = "fresh"
    /\ zo_retval = NotReturned
    /\ zo_ret = NotReturned
    /\ m_owners = EmptyMap
    /\ m_ownersSorted = <<>>
    /\ m_unexplained = <<>>
    /\ m_nZombieProcessesAndThreads = 0
    /\ m_nZombieProcesses = 0
    /\ m_nTotalProcesses = 0
    /\ impersonating = FALSE
    /\ debugPrivilege = FALSE
    /\ processDebugPrivilege = FALSE
    /\ zo_input = NoInput
    /\ zo_calls = 0

zoResults == <<m_owners, m_ownersSorted, m_unexplained, zo_input>>
zoCounts  == <<m_nZombieProcessesAndThreads, m_nZombieProcesses, m_nTotalProcesses>>
zoToken   == <<impersonating, debugPrivilege, processDebugPrivilege>>
zhButPids == <<zh_pc, nAgeInSeconds, ulNow, m_ZombieHandleLookup,
               processEnumErrors, zh_nZombieProcesses, zh_nTotalProcesses,
               hPrevProcess, bClosePrevProcess, zh_ret, zh_calls, procHandles,
               enumerated, handleLog, zh_ntGNP>>

\* The tokens EnablePrivilege can reach: whether the thread is impersonating,
\* and whether the privilege is enabled in the thread's and in the process's
\* token.
Tokens(imp, thread, process) ==
    [impersonating |-> imp, thread |-> thread, process |-> process]

\* (mutant) the privilege is enabled in the token of the process
EnablePrivilege_ProcessToken(tok, granted) ==
    IF ~granted THEN [ok |-> FALSE, tok |-> tok]
    ELSE [ok |-> TRUE, tok |-> [tok EXCEPT !.process = TRUE]]

\* EnablePrivilege(SE_DEBUG_NAME): OpenThreadToken fails if the thread is not
\* impersonating; granted says whether LookupPrivilegeValue and
\* AdjustTokenPrivileges both succeed with last error ERROR_SUCCESS.
EnablePrivilege(tok, granted) ==
    IF ~tok.impersonating THEN [ok |-> FALSE, tok |-> tok]
    ELSE IF ~granted THEN [ok |-> FALSE, tok |-> tok]
    ELSE [ok |-> TRUE, tok |-> [tok EXCEPT !.thread = TRUE]]

\* Update is called on the fresh object: the thread gets a token of its own
\* with the Debug Programs privilege, Update_Impl clears the results and
\* starts discovery on its local ZombieHandles.
ZoUpdateEnter(Ages, ResolveOutcomes, TokenOutcomes, MaxCalls) ==
    /\ zo_pc \in {"fresh", "done"}
    /\ zo_calls < MaxCalls
    /\ zo_calls' = zo_calls + 1
    /\ UNCHANGED snVars
    /\ UNCHANGED zo_input
    /\ \E imp \in TokenOutcomes, priv \in TokenOutcomes :
          LET e == EnablePrivilege(Tokens(TRUE, debugPrivilege, processDebugPrivilege),
                                   priv) IN
          IF ~imp
          THEN /\ zo_pc' = "done"
               /\ zo_ret' = Returned(FALSE, "ImpersonateSelf failed")
               /\ UNCHANGED <<zhVars, zo_retval, m_owners, m_ownersSorted,
                              m_unexplained, zoCounts, zoToken>>
          ELSE IF ~e.ok
          THEN /\ impersonating' = TRUE
               /\ debugPrivilege' = e.tok.thread
               /\ processDebugPrivilege' = e.tok.process
               /\ zo_pc' = "done"
               /\ zo_ret' = Returned(FALSE, "Cannot enable Debug Programs privilege")
               /\ UNCHANGED <<zhVars, zo_retval, m_owners, m_ownersSorted,
                              m_unexplained, zoCounts>>
          ELSE /\ impersonating' = TRUE
               /\ debugPrivilege' = e.tok.thread
               /\ processDebugPrivilege' = e.tok.process
               /\ m_owners' = EmptyMap
               /\ m_ownersSorted' = [i \in DOMAIN m_ownersSorted |-> Dangling]
               /\ m_unexplained' = <<>>
               /\ m_nZombieProcessesAndThreads' = 0
               /\ m_nZombieProcesses' = 0
               /\ m_nTotalProcesses' = 0
               /\ ZhAcquireEnter(Ages, ResolveOutcomes)
               /\ UNCHANGED zo_ret
               /\ IF zh_pc' = "idle"
                  THEN zo_pc' = "unwind" /\ zo_retval' = zh_ret'
                  ELSE zo_pc' = "discovery" /\ UNCHANGED zo_retval

\* Discovery looks at the next process.
ZoNextProcess(ProcInputs) ==
    /\ zo_pc = "discovery"
    /\ ZhNextProcess(ProcInputs)
    /\ UNCHANGED <<snVars, zoVars>>

\* Discovery ends; the counts are taken from it and the snapshot is started on
\* the local AllHandlesSystemwide.
ZoEnumEnd(ResolveOutcomes) ==
    /\ zo_pc = "discovery"
    /\ ZhEnumEnd
    /\ m_nZombieProcessesAndThreads' = Cardinality(DOMAIN m_ZombieHandleLookup')
    /\ m_nZombieProcesses' = zh_nZombieProcesses'
    /\ m_nTotalProcesses' = zh_nTotalProcesses'
    /\ SnUpdateEnter(ResolveOutcomes)
    /\ IF sn_pc' = "idle"
       THEN zo_pc' = "unwind" /\ zo_retval' = sn_ret'
       ELSE zo_pc' = "snapshot" /\ UNCHANGED zo_retval
    /\ UNCHANGED <<zo_ret, zoResults, zoToken, zo_calls>>

\* Both passes over the snapshot, the sorted view and the unexplained zombies.
\* The pointers an earlier run left in m_ownersSorted are still in it: each
\* points to freed memory or to where a record of this run has been put.
Correlate(mem, buf) ==
    LET lookup     == m_ZombieHandleLookup
        addrLookup == Pass1(mem, buf, lookup, 0, EmptyMap)
        p2         == Pass2(mem, buf, lookup, addrLookup, 0,
                            [owners |-> m_owners, pids |-> zombiePidLookup])
    IN  /\ m_owners' = p2.owners
        /\ zombiePidLookup' = p2.pids
        /\ \E o \in IterationOrders(DOMAIN p2.owners),
              stale \in [DOMAIN m_ownersSorted -> DOMAIN p2.owners \cup {Dangling}] :
              m_ownersSorted' \in SortOutcomes(stale \o o, p2.owners)
        /\ \E u \in IterationOrders(DOMAIN p2.pids) :
              m_unexplained' = [i \in 1 .. Len(u) |-> p2.pids[u[i]]]
        /\ zo_input' = [any |-> TRUE, table |-> buf.Handles, lookup |-> lookup,
                        discovered |-> DOMAIN zombiePidLookup]

\* A step of the snapshot inside Update_Impl: when the snapshot fails,
\* Update_Impl fails with its error; when it succeeds, the correlation follows.
ZoSnapshotStep(SnStep) ==
    /\ zo_pc = "snapshot"
    /\ SnStep
    /\ UNCHANGED <<zhButPids, zo_ret, zoCounts, zoToken, zo_calls>>
    /\ IF sn_pc' # "idle"
       THEN UNCHANGED <<zo_pc, zo_retval, zombiePidLookup, zoResults>>
       ELSE IF ~sn_ret'.ok
       THEN /\ zo_pc' = "unwind"
            /\ zo_retval' = sn_ret'
            /\ UNCHANGED <<zombiePidLookup, zoResults>>
       ELSE /\ Correlate(m_Mem', sn_buf')
            /\ zo_pc' = "unwind"
            /\ zo_retval' = Returned(TRUE, "")

ZoProbe(Sizes)         == ZoSnapshotStep(SnProbe(Sizes))
ZoAllocate             == ZoSnapshotStep(SnAllocate)
ZoQuery(Statuses, Sizes, Tables) ==
    ZoSnapshotStep(SnQuery(Statuses, Sizes, Tables))

\* Update_Impl returns: its locals are destroyed (the snapshot's buffer is
\* freed, discovery's handles are closed), Update reverts to the process token
\* and returns what Update_Impl returned.
ZoUnwind ==
    /\ zo_pc = "unwind"
    /\ \E e \in HeapEnv :
          /\ m_Mem' = Dealloc(m_Mem, sn_buf, e).mem
          /\ sn_buf' = Dealloc(m_Mem, sn_buf, e).buf
    /\ sn_pc' = "idle"
    /\ sn_ret' = NotReturned
    /\ sn_issued' = NoQuery
    /\ sn_retries' = 0
    /\ sn_probe' = "none"
    /\ sn_calls' = 0
    /\ UNCHANGED <<ntStat, returnLength, sysInfoLength>>
    /\ LET r == ReleaseAcquiredHandles(procHandles, m_ZombieHandleLookup) IN
          /\ procHandles' = r.open
          /\ m_ZombieHandleLookup' = r.lookup
    /\ handleLog' = handleLog \o CloseEvents(Ascending(DOMAIN m_ZombieHandleLookup))
    /\ zombiePidLookup' = EmptyMap
    /\ UNCHANGED <<zh_pc, nAgeInSeconds, ulNow, processEnumErrors,
                   zh_nZombieProcesses, zh_nTotalProcesses, hPrevProcess,
                   bClosePrevProcess, zh_ret, zh_calls, enumerated, zh_ntGNP>>
    /\ impersonating' = FALSE
    /\ debugPrivilege' = FALSE
    /\ UNCHANGED processDebugPrivilege
    /\ zo_pc' = "done"
    /\ zo_ret' = zo_retval
    /\ UNCHANGED <<zo_retval, zoResults, zoCounts, zo_calls>>

-----------------------------------------------------------------------------
(* wmain: the command line *)

\* The switches, as strings of character codes.
SwDetails == <<45, 100, 101, 116, 97, 105, 108, 115>>
SwCsv     == <<45, 99, 115, 118>>
SwThreads == <<45, 116, 104, 114, 101, 97, 100, 115>>
SwSecs    == <<45, 115, 101, 99, 115>>
SwOut     == <<45, 111, 117, 116>>
SwDiag    == <<45, 100, 105, 97, 103>>
SwHelp    == {<<45, 63>>, <<47, 63>>}

IsDigit(c) == c \in 48 .. 57

\* The value of the digits s[1 .. n].
RECURSIVE DigitsValue(_, _)
DigitsValue(s, n) ==
    IF n = 0 THEN 0 ELSE 10 * DigitsValue(s, n - 1) + (s[n] - 48)

\* swscanf_s(s, L"%llu", &v) on a string without white space or sign: the
\* digits the string starts with are converted; n is the number of fields
\* assigned.  (The strings here are short: the value fits in 64 bits.)
Scan(s) ==
    LET stops == {i \in 1 .. Len(s) : ~IsDigit(s[i])}
        n     == IF stops = {} THEN Len(s)
                 ELSE (CHOOSE i \in stops : \A j \in stops : i <= j) - 1
    IN  IF n = 0 THEN [n |-> 0, value |-> 0]
        ELSE [n |-> 1, value |-> DigitsValue(s, n)]

EndsWith(str, c) == Len(str) > 0 /\ str[Len(str)] = c

\* while (EndsWith(s, '\\') || EndsWith(s, '/')) s = s.substr(0, s.length() - 1)
RECURSIVE StripSeparators(_)
StripSeparators(str) ==
    IF EndsWith(str, 92) \/ EndsWith(str, 47)
    THEN StripSeparators(SubSeq(str, 1, Len(str) - 1))
    ELSE str

NotExited == [exited |-> FALSE, code |-> 0, msg |-> ""]

\* Usage(szError, argv0): the error text, if any, and the syntax go to stderr
\* and the process exits with -1.
Usage(szError) == [exited |-> TRUE, code |-> -1, msg |-> szError]

\* wmain's locals before the parsing loop.
ClInit(args) ==
    /\ cl_pc = "parse"
    /\ argv = args
    /\ ixArg = 1
    /\ bDetails = FALSE
    /\ bCsv = FALSE
    /\ bThreadsReport = FALSE
    /\ nExitAgeInSecs = DefaultAgeInSecs
    /\ bOut_toFile = FALSE
    /\ sOutFile = <<>>
    /\ sDiagDirectory = <<>>
    /\ cl_exit = NotExited
    /\ cl_report = "none"
    /\ cl_seen = {}

argc == Len(argv) + 1

\* One turn of the parsing loop, on argv[ixArg].
ClParseArg ==
    /\ cl_pc = "parse"
    /\ ixArg < argc
    /\ UNCHANGED <<argv, cl_report>>
    /\ LET a     == argv[ixArg]
           more  == ixArg + 1 < argc
           next  == IF more THEN argv[ixArg + 1] ELSE <<>>
           exit(u) == /\ cl_pc' = "exited"
                      /\ cl_exit' = u
           goOn(n) == /\ ixArg' = n
                      /\ UNCHANGED <<cl_pc, cl_exit>>
       IN  IF 0 = Wcsicmp(SwDetails, a)
           THEN /\ bDetails' = TRUE
                /\ cl_seen' = cl_seen \cup {"details"}
                /\ goOn(ixArg + 1)
                /\ UNCHANGED <<bCsv, bThreadsReport, nExitAgeInSecs, bOut_toFile,
                               sOutFile, sDiagDirectory>>
           ELSE IF 0 = Wcsicmp(SwCsv, a)
           THEN /\ bCsv' = TRUE
                /\ cl_seen' = cl_seen \cup {"csv"}
                /\ goOn(ixArg + 1)
                /\ UNCHANGED <<bDetails, bThreadsReport, nExitAgeInSecs, bOut_toFile,
                               sOutFile, sDiagDirectory>>
           ELSE IF 0 = Wcsicmp(SwThreads, a)
           THEN /\ bThreadsReport' = TRUE
                /\ cl_seen' = cl_seen \cup {"threads"}
                /\ goOn(ixArg + 1)
                /\ UNCHANGED <<bDetails, bCsv, nExitAgeInSecs, bOut_toFile,
                               sOutFile, sDiagDirectory>>
           ELSE IF 0 = Wcsicmp(SwSecs, a)
           THEN /\ cl_seen' = cl_seen \cup {"secs"}
                /\ UNCHANGED <<bDetails, bCsv, bThreadsReport, bOut_toFile,
                               sOutFile, sDiagDirectory>>
                /\ IF ~more
                   THEN /\ exit(Usage("Missing arg for -secs"))
                        /\ ixArg' = ixArg + 1
                        /\ UNCHANGED nExitAgeInSecs
                   ELSE IF 1 # Scan(next).n
                   THEN /\ exit(Usage("Invalid arg for -secs"))
                        /\ ixArg' = ixArg + 1
                        /\ UNCHANGED nExitAgeInSecs
                   ELSE /\ nExitAgeInSecs' = Scan(next).value
                        /\ goOn(ixArg + 2)
           ELSE IF 0 = Wcsicmp(SwOut, a)
           THEN /\ cl_seen' = cl_seen \cup {"out"}
                /\ bOut_toFile' = TRUE
                /\ UNCHANGED <<bDetails, bCsv, bThreadsReport, nExitAgeInSecs,
                               sDiagDirectory>>
                /\ IF ~more
                   THEN /\ exit(Usage("Missing arg for -out"))
                        /\ ixArg' = ixArg + 1
                        /\ UNCHANGED sOutFile
                   ELSE /\ sOutFile' = next
                        /\ goOn(ixArg + 2)
           ELSE IF 0 = Wcsicmp(SwDiag, a)
           THEN /\ cl_seen' = cl_seen \cup {"diag"}
                /\ UNCHANGED <<bDetails, bCsv, bThreadsReport, nExitAgeInSecs,
                               bOut_toFile, sOutFile>>
                /\ IF ~more
                   THEN /\ exit(Usage("Missing arg for -diag"))
                        /\ ixArg' = ixArg + 1
                        /\ UNCHANGED sDiagDirectory
                   ELSE /\ sDiagDirectory' = next
                        /\ goOn(ixArg + 2)
           ELSE /\ exit(Usage(IF a \in SwHelp THEN ""
                              ELSE "Unrecognized command-line option"))
                /\ cl_seen' = cl_seen \cup {"other"}
                /\ UNCHANGED <<ixArg, bDetails, bCsv, bThreadsReport, nExitAgeInSecs,
                               bOut_toFile, sOutFile, sDiagDirectory>>

\* Verify no invalid combination of switches
InvalidCombination(threads, details, csv, secs, diag) ==
    threads /\ (details \/ csv \/ 3 # secs \/ Len(diag) > 0)

\* The loop has ended: the combination of switches is verified.
ClVerify ==
    /\ cl_pc = "parse"
    /\ ~(ixArg < argc)
    /\ IF InvalidCombination(bThreadsReport, bDetails, bCsv, nExitAgeInSecs,
                             sDiagDirectory)
       THEN /\ cl_pc' = "exited"
            /\ cl_exit' = Usage("Invalid combination of switches")
       ELSE /\ cl_pc' = "diag"
            /\ UNCHANGED cl_exit
    /\ UNCHANGED <<argv, ixArg, bDetails, bCsv, bThreadsReport, nExitAgeInSecs,
                   bOut_toFile, sOutFile, sDiagDirectory, cl_report, cl_seen>>

\* If sDiagDirectory is specified, it must exist and be a directory.
ClDiagCheck ==
    /\ cl_pc = "diag"
    /\ IF Len(sDiagDirectory) > 0
       THEN /\ sDiagDirectory' = StripSeparators(sDiagDirectory)
            /\ \E isDirectory \in BOOLEAN :
                  IF ~isDirectory
                  THEN /\ cl_pc' = "exited"
                       /\ cl_exit' = Usage("-diag argument is not a directory")
                  ELSE /\ cl_pc' = "open"
                       /\ UNCHANGED cl_exit
       ELSE /\ cl_pc' = "open"
            /\ UNCHANGED <<sDiagDirectory, cl_exit>>
    /\ UNCHANGED <<argv, ixArg, bDetails, bCsv, bThreadsReport, nExitAgeInSecs,
                   bOut_toFile, sOutFile, cl_report, cl_seen>>

\* The output stream: stdout, or the file named by -out.
ClOpenOutput ==
    /\ cl_pc = "open"
    /\ \E created \in BOOLEAN :
          IF bOut_toFile /\ ~created
          THEN /\ cl_pc' = "exited"
               /\ cl_exit' = Usage("")
          ELSE /\ cl_pc' = "report"
               /\ UNCHANGED cl_exit
    /\ UNCHANGED <<argv, ixArg, bDetails, bCsv, bThreadsReport, nExitAgeInSecs,
                   bOut_toFile, sOutFile, sDiagDirectory, cl_report, cl_seen>>

\* The report: the thread report, or ZombieOwners::Update and one of the four
\* outputs.  Of FullThreadReport and of Update only the value returned is
\* used here.
ClReport ==
    /\ cl_pc = "report"
    /\ \E ok \in BOOLEAN :
          /\ cl_exit' = [exited |-> TRUE, code |-> IF ok THEN 0 ELSE -1, msg |-> ""]
          /\ cl_report' =
                IF ~ok THEN "none"
                ELSE IF bThreadsReport THEN "threads"
                ELSE IF ~bDetails
                THEN (IF ~bCsv THEN "summary" ELSE "summary csv")
                ELSE (IF ~bCsv THEN "details" ELSE "details csv")
    /\ cl_pc' = "exited"
    /\ UNCHANGED <<argv, ixArg, bDetails, bCsv, bThreadsReport, nExitAgeInSecs,
                   bOut_toFile, sOutFile, sDiagDirectory, cl_seen>>

-----------------------------------------------------------------------------
(* wmain: the zombie report *)

\* ULONGLONG ulNow = 0 in the block that makes the report
WmInit == wm_ulNow = 0

\* GetSystemTimeAsFileTime(&ulNow), before the ZombieOwners is made; the clock
\* reads one of Readings.
WmReadClock(Readings) ==
    /\ wm_ulNow = 0
    /\ zo_pc = "fresh" /\ zo_calls = 0
    /\ wm_ulNow' \in Readings
    /\ UNCHANGED <<snVars, zhVars, zoVars, clVars, hmVars, agoVars, svcVars>>

-----------------------------------------------------------------------------
(* ServiceLookupByPID *)

ServiceNames(name) == [sServiceName |-> name, sDisplayName |-> <<"display", name>>]

\* for each service returned: a new list under its process id, or one more
\* name in the list already there
RECURSIVE AddServices(_, _, _)
AddServices(lookup, services, ix) ==
    IF ix >= Len(services) THEN lookup
    ELSE LET svc   == services[ix + 1]
             names == ServiceNames(svc.lpServiceName)
         IN  AddServices(IF svc.dwProcessId \notin DOMAIN lookup
                         THEN MapPut(lookup, svc.dwProcessId, <<names>>)
                         ELSE [lookup EXCEPT ![svc.dwProcessId] = Append(@, names)],
                         services, ix + 1)

\* (mutant) the lookup is built on every call
InitializeServiceLookup_EveryCall(init, lookup, scm) ==
    IF ~scm.opened \/ ~scm.moreData \/ ~scm.enumerated
    THEN [bInitialized |-> TRUE, lookup |-> lookup, built |-> TRUE]
    ELSE [bInitialized |-> TRUE, lookup |-> AddServices(lookup, scm.services, 0),
          built |-> TRUE]

\* InitializeServiceLookup: [bInitialized, lookup], and whether this call went
\* on to build.  scm says what the service control manager answers:
\* OpenSCManagerW, the sizing call (ERROR_MORE_DATA or not), the second
\* EnumServicesStatusExW and the services it returns.
InitializeServiceLookup(init, lookup, scm) ==
    IF init THEN [bInitialized |-> init, lookup |-> lookup, built |-> FALSE]
    ELSE IF ~scm.opened \/ ~scm.moreData \/ ~scm.enumerated
    THEN [bInitialized |-> TRUE, lookup |-> lookup, built |-> TRUE]
    ELSE [bInitialized |-> TRUE, lookup |-> AddServices(lookup, scm.services, 0),
          built |-> TRUE]

\* &iter->second
ListAt(pid) == [null |-> FALSE, at |-> pid]

\* Static initialization: an empty map, bInitialized = false.
SvcInit ==
    /\ ServiceLookupByPID = EmptyMap
    /\ bInitialized = FALSE
    /\ svc_log = <<>>

\* LookupServicesByPID(pid, &pServiceList)
SvcLookupServicesByPID(Pids, ScmOutcomes) ==
    \E pid \in Pids, scm \in ScmOutcomes :
        LET i     == InitializeServiceLookup(bInitialized, ServiceLookupByPID, scm)
            found == pid \in DOMAIN i.lookup
        IN  /\ bInitialized' = i.bInitialized
            /\ ServiceLookupByPID' = i.lookup
            /\ svc_log' = Append(svc_log,
                   [op |-> "LookupServicesByPID", pid |-> pid, opened |-> TRUE,
                    built |-> i.built, ret |-> found,
                    pServiceList |-> IF found THEN ListAt(pid) ELSE NullPtr])

\* DumpPIDtoServiceLookupInfo(szOutFile, ...): nothing is done, the lookup not
\* initialized either, if the output file cannot be created.
SvcDumpPIDtoServiceLookupInfo(FileOutcomes, ScmOutcomes) ==
    \E created \in FileOutcomes, scm \in ScmOutcomes :
        LET i == InitializeServiceLookup(bInitialized, ServiceLookupByPID, scm)
        IN  /\ bInitialized' = IF created THEN i.bInitialized ELSE bInitialized
            /\ ServiceLookupByPID' = IF created THEN i.lookup ELSE ServiceLookupByPID
            /\ svc_log' = Append(svc_log,
                   [op |-> "DumpPIDtoServiceLookupInfo", pid |-> 0,
                    opened |-> created, built |-> created /\ i.built,
                    ret |-> created, pServiceList |-> NullPtr])

-----------------------------------------------------------------------------
(* Ago *)

\* The numbers Ago takes its argument apart into.
AgoSplit(nSecondsAgo) ==
    LET nDays    == nSecondsAgo \div (24 * 3600)
        r1       == nSecondsAgo % (24 * 3600)
        nHours   == r1 \div 3600
        r2       == r1 % 3600
        nMinutes == r2 \div 60
        nSeconds == r2 % 60
    IN  [nDays |-> nDays, nHours |-> nHours, nMinutes |-> nMinutes,
         nSeconds |-> nSeconds]

Part(n, label) == [n |-> n, label |-> label]

\* (mutant) a unit is shown only if it is not zero
AgoParts_NonZeroOnly(nSecondsAgo) ==
    LET t == AgoSplit(nSecondsAgo)
    IN  (IF t.nDays > 0
         THEN <<Part(t.nDays, IF t.nDays = 1 THEN " day " ELSE " days ")>>
         ELSE <<>>)
        \o (IF t.nHours > 0
            THEN <<Part(t.nHours, IF t.nHours = 1 THEN " hour " ELSE " hrs ")>>
            ELSE <<>>)
        \o (IF t.nMinutes > 0 THEN <<Part(t.nMinutes, " min ")>> ELSE <<>>)
        \o <<Part(t.nSeconds, " secs")>>

\* What Ago inserts into its stream: numbers, each followed by its unit.
AgoParts(nSecondsAgo) ==
    LET t      == AgoSplit(nSecondsAgo)
        bShow1 == t.nDays > 0
        bShow2 == bShow1 \/ t.nHours > 0
    IN  (IF t.nDays > 0
         THEN <<Part(t.nDays, IF t.nDays = 1 THEN " day " ELSE " days ")>>
         ELSE <<>>)
        \o (IF bShow1 \/ t.nHours > 0
            THEN <<Part(t.nHours, IF t.nHours = 1 THEN " hour " ELSE " hrs ")>>
            ELSE <<>>)
        \o (IF bShow2 \/ t.nMinutes > 0 THEN <<Part(t.nMinutes, " min ")>> ELSE <<>>)
        \o <<Part(t.nSeconds, " secs")>>

\* The stream's contents: operator<< writes a number in decimal.
RECURSIVE StreamText(_)
StreamText(parts) ==
    IF parts = <<>> THEN ""
    ELSE ToString(Head(parts).n) \o Head(parts).label \o StreamText(Tail(parts))

Ago(nSecondsAgo) == StreamText(AgoParts(nSecondsAgo))

AgoNotCalled == [called |-> FALSE, parts |-> <<>>, text |-> ""]

AgoInit(Inputs) ==
    /\ ago_n \in Inputs
    /\ ago_out = AgoNotCalled

AgoCall ==
    /\ ~ago_out.called
    /\ ago_out' = [called |-> TRUE, parts |-> AgoParts(ago_n), text |-> Ago(ago_n)]
    /\ UNCHANGED ago_n

-----------------------------------------------------------------------------
(* A HeapMem object on its own *)

\* Calls made on the object.
MaxHmCalls == 6

\* The sizes asked for: nothing, a byte, a table's worth, 64 KB less one and
\* 64 KB, the largest.
HmSizes ==
    {Zero32, U32(0, 1), U32(0, 32), U32(0, 65535), U32(1, 0), U32(65535, 65535)}

\* HeapMem::Get, HeapMem::Size
Get(mem)  == mem.m_pMem
Size(mem) == mem.m_nSize

NoCall == [op |-> "none", nBytes |-> Zero32, held |-> FALSE, freed |-> FALSE,
           ok |-> FALSE]

\* The state of a constructed HeapMem.
HmInit ==
    /\ hm_Mem = HeapMemInit
    /\ hm_buf = NoBuffer
    /\ hm_live = 0
    /\ hm_last = NoCall
    /\ hm_calls = 0


UtilInit == HmInit /\ AgoInit({0}) /\ WmInit /\ SvcInit

HmAlloc ==
    /\ hm_calls < MaxHmCalls
    /\ \E nBytes \in HmSizes, e \in HeapEnv :
          LET r == Alloc(hm_Mem, hm_buf, nBytes, e)
          IN  /\ hm_Mem' = r.mem
              /\ hm_buf' = r.buf
              /\ hm_live' = (IF r.freed THEN hm_live - 1 ELSE hm_live)
                            + (IF r.ok THEN 1 ELSE 0)
              /\ hm_last' = [op |-> "Alloc", nBytes |-> nBytes,
                             held |-> Get(hm_Mem) # NullPtr,
                             freed |-> r.freed, ok |-> r.ok]
    /\ hm_calls' = hm_calls + 1
    /\ UNCHANGED <<snVars, zhVars, zoVars, clVars, agoVars, wm_ulNow, svcVars>>

HmDealloc ==
    /\ hm_calls < MaxHmCalls
    /\ \E e \in HeapEnv :
          LET d == Dealloc(hm_Mem, hm_buf, e)
          IN  /\ hm_Mem' = d.mem
              /\ hm_buf' = d.buf
              /\ hm_live' = IF d.freed THEN hm_live - 1 ELSE hm_live
              /\ hm_last' = [op |-> "Dealloc", nBytes |-> Zero32,
                             held |-> Get(hm_Mem) # NullPtr,
                             freed |-> d.freed, ok |-> d.ok]
    /\ hm_calls' = hm_calls + 1
    /\ UNCHANGED <<snVars, zhVars, zoVars, clVars, agoVars, wm_ulNow, svcVars>>

InitHeapMem == SnInit /\ ZhInit /\ ZoInit /\ ClInit(<<>>) /\ UtilInit

NextHeapMem ==
    \/ HmAlloc
    \/ HmDealloc

SpecHeapMem == InitHeapMem /\ [][NextHeapMem]_vars

-----------------------------------------------------------------------------
(* Ago on its own *)

\* The days in the arguments that are put together from parts.
MaxAgoDays == 2

\* The ages Ago is given: around each unit's boundaries, the two of its
\* examples, and the largest number of seconds tried.
AgoInputs ==
    {d * 86400 + h * 3600 + m * 60 + s :
        d \in 0 .. MaxAgoDays, h \in {0, 1, 2, 23}, m \in {0, 1, 59}, s \in {0, 1, 59}}
    \cup {90, 100000, 2147483647}

AgoHarnessCall ==
    AgoCall /\ UNCHANGED <<snVars, zhVars, zoVars, clVars, hmVars, wm_ulNow, svcVars>>

InitAgo ==
    /\ SnInit /\ ZhInit /\ ZoInit /\ ClInit(<<>>)
    /\ HmInit /\ WmInit /\ SvcInit /\ AgoInit(AgoInputs)

NextAgo == AgoHarnessCall

SpecAgo == InitAgo /\ [][NextAgo]_vars

-----------------------------------------------------------------------------
(* The pid-to-services lookup on its own *)

\* Calls made in one program run.
MaxSvcCalls == 3

\* Services the service control manager lists.
MaxServices == 2

\* The process ids looked up, and those of the service processes (the last of
\* the former hosts no service).
SvcPids         == {20, 21, 22}
ServiceHostPids == {20, 21}

Service(name, pid) == [lpServiceName |-> name, dwProcessId |-> pid]

\* The active services: none, or up to MaxServices of them, in one process or
\* in two.
ServiceTables ==
    UNION {{[i \in 1 .. n |-> Service(<<"svc", i>>, host[i])] :
               host \in [1 .. n -> ServiceHostPids]} : n \in 0 .. MaxServices}

\* What the service control manager answers.
ScmOutcomes ==
    {[opened |-> FALSE, moreData |-> FALSE, enumerated |-> FALSE, services |-> <<>>],
     [opened |-> TRUE, moreData |-> FALSE, enumerated |-> FALSE, services |-> <<>>],
     [opened |-> TRUE, moreData |-> TRUE, enumerated |-> FALSE, services |-> <<>>]}
    \cup {[opened |-> TRUE, moreData |-> TRUE, enumerated |-> TRUE, services |-> t] :
             t \in ServiceTables}

SvcHarnessLookup ==
    /\ Len(svc_log) < MaxSvcCalls
    /\ SvcLookupServicesByPID(SvcPids, ScmOutcomes)
    /\ UNCHANGED <<snVars, zhVars, zoVars, clVars, hmVars, agoVars, wm_ulNow>>

SvcHarnessDump ==
    /\ Len(svc_log) < MaxSvcCalls
    /\ SvcDumpPIDtoServiceLookupInfo({TRUE, FALSE}, ScmOutcomes)
    /\ UNCHANGED <<snVars, zhVars, zoVars, clVars, hmVars, agoVars, wm_ulNow>>

InitServices == SnInit /\ ZhInit /\ ZoInit /\ ClInit(<<>>) /\ UtilInit

NextServices ==
    \/ SvcHarnessLookup
    \/ SvcHarnessDump

SpecServices == InitServices /\ [][NextServices]_vars

-----------------------------------------------------------------------------
(* The snapshot object on its own *)

\* Required sizes the kernel reports: small ones, the largest whose 25%
\* increase still fits in a ULONG (0xCCCCCCCC), the smallest whose increase
\* does not (0xCCCCCCCD), and the largest ULONG.
SnapshotSizes ==
    {U32(0, 32), U32(0, 43), U32(52428, 52428), U32(52428, 52429), U32(65535, 65535)}

SnapshotTables ==
    {<<>>, <<HandleEntry(1, 4, 1)>>, <<HandleEntry(1, 4, 1), HandleEntry(2, 8, 2)>>}

ResolveAny == {TRUE, FALSE}

SnHarnessUpdate ==
    sn_calls < MaxSnUpdates /\ SnUpdateEnter(ResolveAny) /\ UNCHANGED <<zhVars, zoVars, clVars, utilVars>>
SnHarnessProbe    == SnProbe(SnapshotSizes) /\ UNCHANGED <<zhVars, zoVars, clVars, utilVars>>
SnHarnessAllocate == SnAllocate /\ UNCHANGED <<zhVars, zoVars, clVars, utilVars>>
\* The kernel answers 'buffer too small' to at most MaxRetries data queries
\* of one Update.
SnHarnessStatuses ==
    IF sn_retries < MaxRetries THEN QueryStatuses
    ELSE QueryStatuses \ {STATUS_INFO_LENGTH_MISMATCH}

SnHarnessQuery    ==
    SnQuery(SnHarnessStatuses, SnapshotSizes, SnapshotTables) /\ UNCHANGED <<zhVars, zoVars, clVars, utilVars>>

InitSnapshot == SnInit /\ ZhInit /\ ZoInit /\ ClInit(<<>>) /\ UtilInit

NextSnapshot ==
    \/ SnHarnessUpdate
    \/ SnHarnessProbe
    \/ SnHarnessAllocate
    \/ SnHarnessQuery

SpecSnapshot == InitSnapshot /\ [][NextSnapshot]_vars

\* The same object with a kernel that may answer 'buffer too small' to any
\* number of data queries.  Update runs on one thread that is not suspended:
\* a step of it that can be taken is taken.
SnFairQuery ==
    SnQuery(QueryStatuses, SnapshotSizes, SnapshotTables) /\ UNCHANGED <<zhVars, zoVars, clVars, utilVars>>

NextSnapshotFair ==
    \/ SnHarnessUpdate
    \/ SnHarnessProbe
    \/ SnHarnessAllocate
    \/ SnFairQuery

SpecSnapshotFair ==
    /\ InitSnapshot
    /\ [][NextSnapshotFair]_vars
    /\ WF_vars(SnHarnessProbe)
    /\ WF_vars(SnHarnessAllocate)
    /\ WF_vars(SnFairQuery)

-----------------------------------------------------------------------------
(* Discovery on its own *)

\* Acquire calls made on one ZombieHandles object.
MaxZhCalls == 2

\* The thresholds: no filtering, and wmain's default.
AgeThresholds == {0, DefaultAgeInSecs}

Seconds(n) == n * TicksPerSecond

\* Exit times GetProcessTimes gives: none, long ago, exactly the default age
\* ago, one tick less and one tick more than that, a second ago, now, and
\* later than now (the process exited after the clock was read).
ExitTimes ==
    {0, Now - Seconds(10),
     Now - Seconds(DefaultAgeInSecs) - 1, Now - Seconds(DefaultAgeInSecs),
     Now - Seconds(DefaultAgeInSecs) + 1,
     Now - Seconds(1), Now, Now + 1}

ProcInput(q, del, exit, qi, n) ==
    [queryOk |-> q, IsProcessDeleting |-> del, exitTime |-> exit,
     openQI |-> qi, nThreads |-> n]

\* What the queries on an enumerated process can answer.
DiscoveryInputs ==
    {ProcInput(TRUE, TRUE, e, TRUE, 0) : e \in ExitTimes}
    \cup {ProcInput(TRUE, TRUE, Now - Seconds(10), TRUE, n) : n \in 1 .. MaxThreads}
    \cup {ProcInput(TRUE, TRUE, Now - Seconds(10), FALSE, MaxThreads)}
    \cup {ProcInput(TRUE, FALSE, e, TRUE, 0) : e \in {0, Now - Seconds(10)}}
    \cup {ProcInput(FALSE, TRUE, Now - Seconds(10), TRUE, 0)}

ZhHarnessAcquire ==
    /\ zh_calls < MaxZhCalls
    /\ ZhAcquireEnter(AgeThresholds, ResolveAny)
    /\ UNCHANGED <<snVars, zoVars, clVars, utilVars>>
ZhHarnessNextProcess ==
    ZhNextProcess(DiscoveryInputs) /\ UNCHANGED <<snVars, zoVars, clVars, utilVars>>
ZhHarnessEnumEnd     == ZhEnumEnd /\ UNCHANGED <<snVars, zoVars, clVars, utilVars>>
ZhHarnessDestroy     == ZhDestroy /\ UNCHANGED <<snVars, zoVars, clVars, utilVars>>

InitDiscovery == SnInit /\ ZhInit /\ ZoInit /\ ClInit(<<>>) /\ UtilInit

NextDiscovery ==
    \/ ZhHarnessAcquire
    \/ ZhHarnessNextProcess
    \/ ZhHarnessEnumEnd

SpecDiscovery == InitDiscovery /\ [][NextDiscovery]_vars

\* The same object from its construction to its destruction.
InitLifetime == InitDiscovery

NextLifetime ==
    \/ ZhHarnessAcquire
    \/ ZhHarnessNextProcess
    \/ ZhHarnessEnumEnd
    \/ ZhHarnessDestroy

SpecLifetime == InitLifetime /\ [][NextLifetime]_vars

-----------------------------------------------------------------------------
(* One ZombieOwners::Update from construction *)

\* What discovery sees of a process: still running, a zombie without threads,
\* a zombie with threads.
OwnersInputs ==
    {ProcInput(TRUE, FALSE, 0, TRUE, 0),
     ProcInput(TRUE, TRUE, Now - Seconds(10), TRUE, 0),
     ProcInput(TRUE, TRUE, Now - Seconds(10), TRUE, MaxThreads)}

OwnersAges == {DefaultAgeInSecs}

OwnersSizes == {U32(0, 32)}

\* The data query succeeds or fails at once (the retries are the snapshot's
\* own business, and SpecSnapshot's).
OwnersStatuses == {STATUS_SUCCESS, STATUS_ACCESS_DENIED}

\* The processes, other than the current one, that hold handles: one whose id
\* is lower and one whose id is higher than the current process's.
OtherPids == {CurrPID - 2, CurrPID + 2}

\* The objects their handles and the current process's other handles refer to:
\* the first enumerated process, a thread of it, the second enumerated process.
TargetObjs ==
    {ProcObj(EnumPid(1)), ThreadObj(EnumPid(1), 1), ProcObj(EnumPid(2))}

\* The handle table entries of one process that holds handles to objs; its
\* handle values start after base.
EntriesOf(pid, objs, base) ==
    LET o == Ascending(objs)
    IN  [i \in 1 .. Len(o) |-> HandleEntry(pid, base + 4 * i, o[i])]

\* The handles discovery holds, as the kernel lists them.
DiscoveryEntries ==
    LET h == Ascending(DOMAIN procHandles)
    IN  [i \in 1 .. Len(h) |-> HandleEntry(CurrPID, h[i], procHandles[h[i]])]

\* The snapshots the kernel can return: process by process, the current
\* process with discovery's handles and the handles something else in it has
\* opened (their values are not discovery's); the handle values of other
\* processes are their own and may equal discovery's.
OwnersTables ==
    {EntriesOf(CurrPID - 2, sel[CurrPID - 2], 0)
        \o DiscoveryEntries
        \o EntriesOf(CurrPID, sel[CurrPID], 4 * Cardinality(HandlePool))
        \o EntriesOf(CurrPID + 2, sel[CurrPID + 2], 4)
     : sel \in [OtherPids \cup {CurrPID} -> SUBSET TargetObjs]}

\* wmain makes one ZombieOwners and calls Update on it once.
UpdatesInMain == 1

ZoHarnessUpdate      ==
    ZoUpdateEnter(OwnersAges, ResolveAny, {TRUE, FALSE}, UpdatesInMain)
        /\ UNCHANGED <<clVars, utilVars>>
ZoHarnessNextProcess == ZoNextProcess(OwnersInputs) /\ UNCHANGED <<clVars, utilVars>>
ZoHarnessEnumEnd     == ZoEnumEnd(ResolveAny) /\ UNCHANGED <<clVars, utilVars>>
ZoHarnessProbe       == ZoProbe(OwnersSizes) /\ UNCHANGED <<clVars, utilVars>>
ZoHarnessAllocate    == ZoAllocate /\ UNCHANGED <<clVars, utilVars>>
ZoHarnessQuery       ==
    ZoQuery(OwnersStatuses, OwnersSizes, OwnersTables) /\ UNCHANGED <<clVars, utilVars>>
ZoHarnessUnwind      == ZoUnwind /\ UNCHANGED <<clVars, utilVars>>

InitOwners == SnInit /\ ZhInit /\ ZoInit /\ ClInit(<<>>) /\ UtilInit

NextOwners ==
    \/ ZoHarnessUpdate
    \/ ZoHarnessNextProcess
    \/ ZoHarnessEnumEnd
    \/ ZoHarnessProbe
    \/ ZoHarnessAllocate
    \/ ZoHarnessQuery
    \/ ZoHarnessUnwind

SpecOwners == InitOwners /\ [][NextOwners]_vars

-----------------------------------------------------------------------------
(* One ZombieOwners object updated more than once *)

MaxZoUpdates == 2

\* A live process, and a process that exited ten seconds ago with no thread
\* left.
RepeatInputs ==
    {ProcInput(TRUE, FALSE, 0, TRUE, 0),
     ProcInput(TRUE, TRUE, Now - Seconds(10), TRUE, 0)}

\* The snapshots: discovery's handles, and each of two other processes with
\* or without a handle to the first process enumerated.
RepeatTables ==
    {EntriesOf(CurrPID - 2, sel[CurrPID - 2], 0)
        \o DiscoveryEntries
        \o EntriesOf(CurrPID + 2, sel[CurrPID + 2], 4)
     : sel \in [OtherPids -> SUBSET {ProcObj(EnumPid(1))}]}

ZoRepeatUpdate      ==
    ZoUpdateEnter(OwnersAges, ResolveAny, {TRUE, FALSE}, MaxZoUpdates)
        /\ UNCHANGED <<clVars, utilVars>>
ZoRepeatNextProcess == ZoNextProcess(RepeatInputs) /\ UNCHANGED <<clVars, utilVars>>
ZoRepeatEnumEnd     == ZoEnumEnd(ResolveAny) /\ UNCHANGED <<clVars, utilVars>>
ZoRepeatProbe       == ZoProbe(OwnersSizes) /\ UNCHANGED <<clVars, utilVars>>
ZoRepeatAllocate    == ZoAllocate /\ UNCHANGED <<clVars, utilVars>>
ZoRepeatQuery       ==
    ZoQuery(OwnersStatuses, OwnersSizes, RepeatTables) /\ UNCHANGED <<clVars, utilVars>>
ZoRepeatUnwind      == ZoUnwind /\ UNCHANGED <<clVars, utilVars>>

NextRepeat ==
    \/ ZoRepeatUpdate
    \/ ZoRepeatNextProcess
    \/ ZoRepeatEnumEnd
    \/ ZoRepeatProbe
    \/ ZoRepeatAllocate
    \/ ZoRepeatQuery
    \/ ZoRepeatUnwind

SpecRepeat == InitOwners /\ [][NextRepeat]_vars

-----------------------------------------------------------------------------
(* wmain's zombie report: the clock, then one Update *)

\* What wmain's clock reads: a second before discovery reads the clock, and
\* the same tick.
MainClockReadings == {Now - Seconds(1), Now}

\* A live process, and processes that exited ten seconds before discovery
\* read the clock, between wmain's reading and discovery's, and after both.
ReportInputs ==
    {ProcInput(TRUE, FALSE, 0, TRUE, 0),
     ProcInput(TRUE, TRUE, Now - Seconds(10), TRUE, 0),
     ProcInput(TRUE, TRUE, Now - 1, TRUE, 0),
     ProcInput(TRUE, TRUE, Now + 1, TRUE, 0)}

WmHarnessReadClock  == WmReadClock(MainClockReadings)
\* zombieOwners.Update(nExitAgeInSecs, ...), after the clock was read
WmHarnessUpdate     ==
    /\ wm_ulNow # 0
    /\ ZoUpdateEnter(AgeThresholds, ResolveAny, {TRUE, FALSE}, UpdatesInMain)
    /\ UNCHANGED <<clVars, utilVars>>
WmHarnessNextProcess == ZoNextProcess(ReportInputs) /\ UNCHANGED <<clVars, utilVars>>
WmHarnessEnumEnd     == ZoEnumEnd(ResolveAny) /\ UNCHANGED <<clVars, utilVars>>
WmHarnessProbe       == ZoProbe(OwnersSizes) /\ UNCHANGED <<clVars, utilVars>>
WmHarnessAllocate    == ZoAllocate /\ UNCHANGED <<clVars, utilVars>>
WmHarnessQuery       ==
    ZoQuery(OwnersStatuses, OwnersSizes, RepeatTables) /\ UNCHANGED <<clVars, utilVars>>
WmHarnessUnwind      == ZoUnwind /\ UNCHANGED <<clVars, utilVars>>

InitReport == InitOwners

NextReport ==
    \/ WmHarnessReadClock
    \/ WmHarnessUpdate
    \/ WmHarnessNextProcess
    \/ WmHarnessEnumEnd
    \/ WmHarnessProbe
    \/ WmHarnessAllocate
    \/ WmHarnessQuery
    \/ WmHarnessUnwind

SpecReport == InitReport /\ [][NextReport]_vars

-----------------------------------------------------------------------------
(* wmain on every short command line *)

MaxArgs == 3

\* What can stand on the command line: the switches (one of them also in
\* another case), "-?", the numbers "3" and "5", a name "f" and the empty
\* string.
ArgStrings ==
    {SwDetails, SwCsv, SwThreads, <<45, 84, 72, 82, 69, 65, 68, 83>>, SwSecs, SwOut, SwDiag, <<45, 63>>,
     <<51>>, <<53>>, <<102>>, <<>>}

CommandLines == UNION {[1 .. n -> ArgStrings] : n \in 0 .. MaxArgs}

ClHarnessParseArg   == ClParseArg /\ UNCHANGED <<snVars, zhVars, zoVars, utilVars>>
ClHarnessVerify     == ClVerify /\ UNCHANGED <<snVars, zhVars, zoVars, utilVars>>
ClHarnessDiagCheck  == ClDiagCheck /\ UNCHANGED <<snVars, zhVars, zoVars, utilVars>>
ClHarnessOpenOutput == ClOpenOutput /\ UNCHANGED <<snVars, zhVars, zoVars, utilVars>>
ClHarnessReport     == ClReport /\ UNCHANGED <<snVars, zhVars, zoVars, utilVars>>

InitCmdLine ==
    /\ SnInit /\ ZhInit /\ ZoInit
    /\ \E args \in CommandLines : ClInit(args)
    /\ UtilInit

NextCmdLine ==
    \/ ClHarnessParseArg
    \/ ClHarnessVerify
    \/ ClHarnessDiagCheck
    \/ ClHarnessOpenOutput
    \/ ClHarnessReport

SpecCmdLine == InitCmdLine /\ [][NextCmdLine]_vars

-----------------------------------------------------------------------------
(* Claims about the correlation (SpecOwners) *)

UpdateSucceeded == zo_pc = "done" /\ zo_ret.called /\ zo_ret.ok

\* The snapshot the passes read, and the entries in it that are discovery's
\* own handles.
Snap == zo_input.table

Discoverys(e) ==
    e.UniqueProcessId = CurrPID /\ e.HandleValue \in DOMAIN zo_input.lookup

\* The addresses of the zombie objects, and the record discovery made of each.
ZombieObjects == {Snap[i].Object : i \in {j \in DOMAIN Snap : Discoverys(Snap[j])}}

RecordAt(obj) ==
    LET is   == {i \in DOMAIN Snap : Discoverys(Snap[i]) /\ Snap[i].Object = obj}
        last == CHOOSE i \in is : \A j \in is : j <= i
    IN  zo_input.lookup[Snap[last].HandleValue]

\* An entry that is evidence: it refers to a zombie object and is not one of
\* discovery's own handles.
Attributable(e) == e.Object \in ZombieObjects /\ ~Discoverys(e)

AttributableIndices == {i \in DOMAIN Snap : Attributable(Snap[i])}

\* The (handle value, record) pairs of q's attributable entries, in the order
\* of the snapshot.
PairsOf(q) ==
    LET IsQs(e) == e.UniqueProcessId = q /\ Attributable(e)
        es      == SelectSeq(Snap, IsQs)
    IN  [i \in 1 .. Len(es) |->
            [handleValue |-> es[i].HandleValue, zombieInfo |-> RecordAt(es[i].Object)]]

OwningInfoOf(q) == m_owners[q].zombieOwningInfo

AttributedPids ==
    UNION {{OwningInfoOf(q)[i].zombieInfo.PID : i \in DOMAIN OwningInfoOf(q)}
           : q \in DOMAIN m_owners}

UnexplainedPids == {m_unexplained[i].PID : i \in DOMAIN m_unexplained}

\* C1: after a successful Update the zombie process ids attributed to owners
\* and the process ids in the unexplained list are disjoint, and together they
\* are exactly the process ids discovery recorded.
C1_AttributedAndUnexplainedPartition ==
    UpdateSucceeded =>
        /\ AttributedPids \cap UnexplainedPids = {}
        /\ AttributedPids \cup UnexplainedPids = zo_input.discovered

\* one zombie was attributed, another was left unexplained
C1_Witness ==
    /\ UpdateSucceeded
    /\ AttributedPids # {}
    /\ UnexplainedPids # {}
    /\ Cardinality(zo_input.discovered) >= 2

\* C2: an entry of the current process whose handle value is a key of
\* discovery's lookup is never put in an OwnerRecord; an entry of the current
\* process whose handle value is not such a key and whose object is a zombie
\* object is put in the OwnerRecord of the current process's own id.
C2_OnlyDiscoverysOwnHandlesExcluded ==
    UpdateSucceeded =>
        \A i \in DOMAIN Snap :
            Snap[i].UniqueProcessId = CurrPID =>
                /\ Snap[i].HandleValue \in DOMAIN zo_input.lookup =>
                      (CurrPID \in DOMAIN m_owners =>
                          \A k \in DOMAIN OwningInfoOf(CurrPID) :
                              OwningInfoOf(CurrPID)[k].handleValue # Snap[i].HandleValue)
                /\ (/\ Snap[i].HandleValue \notin DOMAIN zo_input.lookup
                    /\ Snap[i].Object \in ZombieObjects) =>
                      /\ CurrPID \in DOMAIN m_owners
                      /\ m_owners[CurrPID].PID = CurrPID
                      /\ \E k \in DOMAIN OwningInfoOf(CurrPID) :
                            OwningInfoOf(CurrPID)[k] =
                                [handleValue |-> Snap[i].HandleValue,
                                 zombieInfo  |-> RecordAt(Snap[i].Object)]

\* the current process held a handle of its own to a zombie object, next to
\* discovery's handle to the same object, and no other process held any
C2_Witness ==
    /\ UpdateSucceeded
    /\ DOMAIN m_owners = {CurrPID}
    /\ \E i, j \in DOMAIN Snap :
          /\ Discoverys(Snap[i])
          /\ Snap[j].UniqueProcessId = CurrPID
          /\ ~Discoverys(Snap[j])
          /\ Snap[j].Object = Snap[i].Object

LowerCase(s) == [i \in DOMAIN s |-> IF s[i] \in 65 .. 90 THEN s[i] + 32 ELSE s[i]]

\* a comes before b in the dictionary
LexLess(a, b) ==
    \E k \in 1 .. Len(b) :
        /\ \A i \in 1 .. k - 1 : i <= Len(a) /\ a[i] = b[i]
        /\ (k > Len(a) \/ a[k] < b[k])

NameLess(A, B)  == LexLess(LowerCase(A.sExeName), LowerCase(B.sExeName))
NameEqual(A, B) == LowerCase(A.sExeName) = LowerCase(B.sExeName)
Count(A)        == Len(A.zombieOwningInfo)

InOrder(A, B) ==
    \/ Count(A) > Count(B)
    \/ Count(A) = Count(B) /\ NameLess(A, B)
    \/ Count(A) = Count(B) /\ NameEqual(A, B) /\ A.PID <= B.PID

\* C3: after a successful Update on a fresh object the sorted view is a
\* permutation of the owners map, and every adjacent pair is in order: more
\* handles first, then the exe name ascending without regard to case, then
\* the process id ascending.
C3_SortedViewOrdered ==
    UpdateSucceeded =>
        /\ Len(m_ownersSorted) = Cardinality(DOMAIN m_owners)
        /\ {m_ownersSorted[i] : i \in DOMAIN m_ownersSorted} = DOMAIN m_owners
        /\ \A i \in 1 .. Len(m_ownersSorted) - 1 :
              InOrder(m_owners[m_ownersSorted[i]], m_owners[m_ownersSorted[i + 1]])

\* three owners: the first two with as many handles and names that differ in
\* case only, in the order of their ids; the third with fewer handles
C3_Witness ==
    /\ UpdateSucceeded
    /\ Len(m_ownersSorted) = 3
    /\ LET A == m_owners[m_ownersSorted[1]]
           B == m_owners[m_ownersSorted[2]]
           C == m_owners[m_ownersSorted[3]]
       IN  /\ Count(A) = Count(B) /\ NameEqual(A, B)
           /\ A.sExeName # B.sExeName /\ A.PID < B.PID
           /\ Count(B) > Count(C)
           /\ NameLess(B, C)

\* The zombie objects that belong to the zombie process P: its process object
\* and its thread objects.
ObjectsOfZombie(P) == {obj \in ZombieObjects : RecordAt(obj).PID = P}

Explained(P) ==
    \E i \in AttributableIndices : Snap[i].Object \in ObjectsOfZombie(P)

\* C4: after a successful Update a discovered zombie is in the unexplained
\* list if and only if no entry was attributed for its process object or one
\* of its thread objects; it is there once, as a process-level record; and
\* the owners hold nothing for it.
C4_UnexplainedIffNothingAttributed ==
    UpdateSucceeded =>
        /\ \A P \in zo_input.discovered : (P \in UnexplainedPids) <=> ~Explained(P)
        /\ \A i, j \in DOMAIN m_unexplained :
              m_unexplained[i].PID = m_unexplained[j].PID => i = j
        /\ \A i \in DOMAIN m_unexplained :
              /\ m_unexplained[i].TID = 0
              /\ m_unexplained[i].PID \in zo_input.discovered
        /\ \A P \in zo_input.discovered : ~Explained(P) => P \notin AttributedPids

\* a zombie to whose thread, and to nothing else of it, another process held
\* a handle is not unexplained; a zombie only discovery held handles to is
C4_Witness ==
    /\ UpdateSucceeded
    /\ \E P, R \in zo_input.discovered :
          /\ P \notin UnexplainedPids
          /\ \A i \in AttributableIndices :
                Snap[i].Object \in ObjectsOfZombie(P) => RecordAt(Snap[i].Object).TID # 0
          /\ R \in UnexplainedPids
          /\ \E i \in DOMAIN Snap : Discoverys(Snap[i]) /\ RecordAt(Snap[i].Object).PID = R

\* C5: after a successful Update the owners map has a record for q if and
\* only if q owns an attributable entry of the snapshot; the record's PID is
\* its key and its list is the pairs of q's attributable entries in snapshot
\* order.  One zombie and one attributable entry give one record with one pair
\* and nothing unexplained.
C5_OneRecordPerOwner ==
    UpdateSucceeded =>
        /\ DOMAIN m_owners = {Snap[i].UniqueProcessId : i \in AttributableIndices}
        /\ \A q \in DOMAIN m_owners :
              /\ m_owners[q].PID = q
              /\ OwningInfoOf(q) = PairsOf(q)
        /\ (Cardinality(zo_input.discovered) = 1 /\ Cardinality(AttributableIndices) = 1) =>
              /\ Cardinality(DOMAIN m_owners) = 1
              /\ \A q \in DOMAIN m_owners :
                    /\ Len(OwningInfoOf(q)) = 1
                    /\ OwningInfoOf(q)[1].zombieInfo.PID \in zo_input.discovered
              /\ m_unexplained = <<>>

\* two owners, one of them with two handles to different zombie objects and a
\* third handle that is to no zombie object
C5_Witness ==
    /\ UpdateSucceeded
    /\ Cardinality(DOMAIN m_owners) >= 2
    /\ \E q \in DOMAIN m_owners :
          /\ q # CurrPID
          /\ Len(OwningInfoOf(q)) = 2
          /\ OwningInfoOf(q)[1].zombieInfo # OwningInfoOf(q)[2].zombieInfo
          /\ \E i \in DOMAIN Snap :
                Snap[i].UniqueProcessId = q /\ ~Attributable(Snap[i])

\* one zombie, one process holding one handle to it: one record, one pair,
\* nothing unexplained
C5_ScenarioReached ==
    /\ UpdateSucceeded
    /\ Cardinality(zo_input.discovered) = 1
    /\ Cardinality(AttributableIndices) = 1
    /\ Cardinality(DOMAIN m_owners) = 1
    /\ m_unexplained = <<>>

\* A handle of another process whose value is also the value of one of
\* discovery's handles.
SameValueElsewhere(e) ==
    e.UniqueProcessId # CurrPID /\ e.HandleValue \in DOMAIN zo_input.lookup

\* The address map pass 1 makes of the snapshot t.
AddrMapOf(t) ==
    Pass1([HeapMemInit EXCEPT !.m_pMem = Block], Filled(t), zo_input.lookup,
          0, EmptyMap)

InOwnerRecord(e) ==
    /\ e.UniqueProcessId \in DOMAIN m_owners
    /\ \E k \in DOMAIN OwningInfoOf(e.UniqueProcessId) :
          OwningInfoOf(e.UniqueProcessId)[k].handleValue = e.HandleValue

\* C22: a snapshot entry of another process whose handle value equals one of
\* discovery's adds nothing to the address map of pass 1 (the map is the one
\* made without such entries, its keys the objects of discovery's own
\* handles), and is in its owner's record, with the record discovery made of
\* its object, if and only if its object is in the address map.
C22_HandleValueComparedWithPid ==
    UpdateSucceeded =>
        /\ AddrMapOf(Snap) =
              AddrMapOf(SelectSeq(Snap, LAMBDA e : ~SameValueElsewhere(e)))
        /\ DOMAIN AddrMapOf(Snap) = ZombieObjects
        /\ \A i \in DOMAIN Snap :
              SameValueElsewhere(Snap[i]) =>
                  /\ InOwnerRecord(Snap[i]) <=> Snap[i].Object \in DOMAIN AddrMapOf(Snap)
                  /\ InOwnerRecord(Snap[i]) =>
                        \E k \in DOMAIN OwningInfoOf(Snap[i].UniqueProcessId) :
                            OwningInfoOf(Snap[i].UniqueProcessId)[k] =
                                [handleValue |-> Snap[i].HandleValue,
                                 zombieInfo  |-> AddrMapOf(Snap)[Snap[i].Object]]

\* another process held, under handle values that discovery also held, a
\* handle to a zombie (it was put in that process's record) and a handle to a
\* process that is no zombie (it was not)
C22_Witness ==
    /\ UpdateSucceeded
    /\ \E i, j \in DOMAIN Snap :
          /\ SameValueElsewhere(Snap[i]) /\ SameValueElsewhere(Snap[j])
          /\ Snap[i].UniqueProcessId = Snap[j].UniqueProcessId
          /\ Snap[i].Object \in ZombieObjects /\ InOwnerRecord(Snap[i])
          /\ Snap[j].Object \notin ZombieObjects /\ ~InOwnerRecord(Snap[j])
          /\ \E d \in DOMAIN Snap :
                /\ Discoverys(Snap[d])
                /\ Snap[d].HandleValue = Snap[j].HandleValue
                /\ Snap[d].Object # Snap[j].Object

-----------------------------------------------------------------------------
(* Claims about what Update holds when it returns (SpecOwners) *)

\* C11: whenever Update has returned, the thread's impersonation has been
\* reverted: it has no token of its own and no enabled privilege.
C11_RevertedWhenUpdateReturns ==
    (zo_pc = "done" /\ zo_ret.called) => (~impersonating /\ ~debugPrivilege)

\* The handles open after the first k events of the log.
OpenAfter(log, k) ==
    {log[i].h : i \in {j \in 1 .. k : /\ log[j].op = "open"
                                       /\ \A m \in j + 1 .. k : log[m].h # log[j].h}}

\* Every open gives a handle that was not open and every close is of a handle
\* that was open: no handle is closed twice.
EachClosedAtMostOnce(log) ==
    \A k \in 1 .. Len(log) :
        IF log[k].op = "open"
        THEN log[k].h \notin OpenAfter(log, k - 1)
        ELSE log[k].h \in OpenAfter(log, k - 1)

HeldForChaining == IF hPrevProcess = NullHandle THEN {} ELSE {hPrevProcess}

\* C12: of the handles discovery opens inside Update_Impl, none is closed
\* twice; during the enumeration the open ones are the handles in the lookup
\* and the one kept to obtain the next process, afterwards the handles in the
\* lookup; when Update has returned, all are closed.
C12_HandlesClosedExactlyOnce ==
    /\ EachClosedAtMostOnce(handleLog)
    /\ DOMAIN procHandles = OpenAfter(handleLog, Len(handleLog))
    /\ zo_pc = "discovery" =>
          DOMAIN procHandles = DOMAIN m_ZombieHandleLookup \cup HeldForChaining
    /\ zo_pc \in {"snapshot", "unwind"} =>
          DOMAIN procHandles = DOMAIN m_ZombieHandleLookup
    /\ zo_pc = "done" =>
          /\ procHandles = EmptyMap
          /\ m_ZombieHandleLookup = EmptyMap
          /\ OpenAfter(handleLog, Len(handleLog)) = {}

\* Update returned after a discovery that closed a live process's handle at
\* once, kept a zombie's process and thread handles, and was handed the value
\* of a closed handle again
C12_Witness ==
    /\ zo_pc = "done" /\ zo_ret.called
    /\ \E i, j \in 1 .. Len(enumerated) :
          /\ ~enumerated[i].IsProcessDeleting
          /\ enumerated[j].IsProcessDeleting /\ enumerated[j].nThreads >= 1
    /\ \E a, b \in 1 .. Len(handleLog) :
          /\ a < b
          /\ handleLog[a] = handleLog[b]
          /\ handleLog[a].op = "open"

UpdateFailed == zo_pc = "done" /\ zo_ret.called /\ ~zo_ret.ok

\* C13: when Update has returned failure, the owners map, the sorted view and
\* the unexplained list are empty and the three counts are zero.
C13_NoPartialResultsOnFailure ==
    UpdateFailed =>
        /\ m_owners = EmptyMap
        /\ m_ownersSorted = <<>>
        /\ m_unexplained = <<>>
        /\ m_nZombieProcessesAndThreads = 0
        /\ m_nZombieProcesses = 0
        /\ m_nTotalProcesses = 0

\* C14: after every successful Update, also a second one on the same object,
\* the sorted view has as many entries as the owners map and its entries are
\* pointers to distinct records of that map; the counts are those of the run
\* just made and the unexplained zombies are zombies that run recorded.
C14_ResultsOfMostRecentRunOnly ==
    UpdateSucceeded =>
        /\ Len(m_ownersSorted) = Cardinality(DOMAIN m_owners)
        /\ \A i \in DOMAIN m_ownersSorted : m_ownersSorted[i] \in DOMAIN m_owners
        /\ \A i, j \in DOMAIN m_ownersSorted :
              m_ownersSorted[i] = m_ownersSorted[j] => i = j
        /\ m_nTotalProcesses = Len(enumerated)
        /\ m_nZombieProcesses = Cardinality(zo_input.discovered)
        /\ \A i \in DOMAIN m_unexplained :
              m_unexplained[i].PID \in zo_input.discovered

TokenFailures == {"ImpersonateSelf failed", "Cannot enable Debug Programs privilege"}

\* C24: the privilege is enabled only in the token of an impersonating thread,
\* never in the process token; EnablePrivilege fails and changes nothing when
\* the thread is not impersonating; while discovery or the snapshot runs the
\* thread is impersonating with the privilege enabled; an Update that failed
\* at impersonation or at the privilege returned failure with one of the two
\* messages having started no discovery and no snapshot.
C24_PrivilegeBeforeDiscovery ==
    /\ debugPrivilege => impersonating
    /\ ~processDebugPrivilege
    /\ \A t, p, g \in BOOLEAN :
          /\ EnablePrivilege(Tokens(FALSE, t, p), g) =
                [ok |-> FALSE, tok |-> Tokens(FALSE, t, p)]
          /\ EnablePrivilege(Tokens(TRUE, t, p), g).tok.process = p
          /\ EnablePrivilege(Tokens(TRUE, t, p), g).ok
                => EnablePrivilege(Tokens(TRUE, t, p), g).tok.thread
    /\ (zo_pc \in {"discovery", "snapshot"} \/ zh_pc # "idle" \/ sn_pc # "idle")
          => (impersonating /\ debugPrivilege)
    /\ (zh_calls > 0 \/ sn_calls > 0) =>
          (zo_calls > 0 /\ (zo_ret.called => zo_ret.sErrorInfo \notin TokenFailures))
    /\ (zo_pc = "done" /\ zo_ret.called /\ zo_ret.sErrorInfo \in TokenFailures) =>
          /\ ~zo_ret.ok
          /\ ~debugPrivilege
          /\ zo_ret.sErrorInfo = "ImpersonateSelf failed" <=> ~impersonating
          /\ zh_calls = 0 /\ sn_calls = 0
          /\ enumerated = <<>> /\ handleLog = <<>>
          /\ sn_pc = "idle" /\ zh_pc = "idle"

\* Update returned because the privilege could not be enabled on the
\* impersonating thread
C24_Witness ==
    /\ zo_pc = "done" /\ zo_ret.called /\ ~zo_ret.ok
    /\ zo_ret.sErrorInfo = "Cannot enable Debug Programs privilege"
    /\ impersonating
    /\ zh_calls = 0 /\ sn_calls = 0

\* The inserts into the handle lookup that the first k enumerated processes
\* gave rise to: one for each zombie, and one for each thread of a zombie whose
\* threads could be walked.
RECURSIVE ThreadInserts(_)
ThreadInserts(k) ==
    IF k = 0 THEN 0
    ELSE ThreadInserts(k - 1)
         + (IF IsZombie(enumerated[k], nAgeInSeconds, ulNow) /\ enumerated[k].openQI
            THEN enumerated[k].nThreads ELSE 0)

ProcessInserts ==
    Cardinality({i \in 1 .. Len(enumerated) :
                    IsZombie(enumerated[i], nAgeInSeconds, ulNow)})

\* C27: while discovery runs the handle lookup has as many entries as inserts
\* were made into it (no insert replaced an entry); after a successful Update
\* ZombieProcessAndThreadCount() is ZombieProcessCount() plus the number of
\* thread handles recorded, so it is not less than ZombieProcessCount().
C27_CountIsProcessesPlusThreads ==
    /\ zo_pc = "discovery" =>
          Cardinality(DOMAIN m_ZombieHandleLookup)
              = ProcessInserts + ThreadInserts(Len(enumerated))
    /\ UpdateSucceeded =>
          /\ m_nZombieProcesses = ProcessInserts
          /\ m_nZombieProcessesAndThreads
                = m_nZombieProcesses + ThreadInserts(Len(enumerated))
          /\ ThreadInserts(Len(enumerated)) =
                Cardinality({h \in DOMAIN zo_input.lookup : zo_input.lookup[h].TID # 0})
          /\ m_nZombieProcessesAndThreads >= m_nZombieProcesses

\* Update succeeded after discovery recorded two zombies, one with a thread
\* and one without
C27_Witness ==
    /\ UpdateSucceeded
    /\ m_nZombieProcesses = 2
    /\ m_nZombieProcessesAndThreads = 3

-----------------------------------------------------------------------------
(* Claims about the snapshot (SpecSnapshot) *)

\* r + floor(r/4) as a number, not as a ULONG: fits iff the carry is 0
Fits32(r) == AddWide(r, Div4(r)).carry = 0
PlusQuarter(r) == LET w == AddWide(r, Div4(r)) IN U32(w.hi, w.lo)

MsgFirstCall == "NtQuerySystemInformation first call failed"
MsgOverflow  == "Unable to allocate memory: integer overflow"

\* C8: every data query is issued with a buffer of exactly r + floor(r/4)
\* bytes, r being the required size the kernel reported last (no wrapped
\* sum), and when Update has succeeded the buffer it holds is at least as
\* large as the requirement reported before the successful query.
C8_QueryBufferIsRequiredPlusQuarter ==
    /\ sn_issued.any =>
          /\ Fits32(sn_issued.required)
          /\ sn_issued.len = PlusQuarter(sn_issued.required)
          /\ sn_issued.bufSize = sn_issued.len
    /\ (sn_ret.called /\ sn_ret.ok) =>
          /\ sn_issued.any
          /\ m_Mem.m_pMem = Block
          /\ m_Mem.m_nSize = sn_issued.bufSize
          /\ ~Less32(m_Mem.m_nSize, sn_issued.required)

\* C8 witness: Update succeeded on a retry, after the kernel had raised the
\* required size from one query to the next.
C8_Witness ==
    /\ sn_ret.called /\ sn_ret.ok
    /\ sn_retries >= 1
    /\ Less32(sn_issued.prevRequired, sn_issued.required)
    /\ Less32(sn_issued.required, sn_issued.len)

\* C9: when r + floor(r/4) does not fit in a ULONG, the pass through the loop
\* returns failure with the integer-overflow error, holding no buffer and
\* having issued no query.
C9_OverflowIsFatal ==
    [][ (sn_pc = "loop" /\ ntStat = STATUS_INFO_LENGTH_MISMATCH /\ ~Fits32(returnLength))
        => /\ sn_pc' = "idle"
           /\ sn_ret' = Returned(FALSE, MsgOverflow)
           /\ m_Mem'.m_pMem = NullPtr
           /\ sn_buf' = NoBuffer
           /\ sn_issued' = sn_issued ]_vars

\* C9 witness: Update has returned the overflow error.
C9_Witness == sn_ret.called /\ ~sn_ret.ok /\ sn_ret.sErrorInfo = MsgOverflow

UpdateRunning == sn_pc # "idle"

\* The data query just made was answered 'buffer too small' with a required
\* size that is not larger than the buffer it was given.
KernelMisreported ==
    /\ sn_pc = "loop"
    /\ sn_issued.any
    /\ ntStat = STATUS_INFO_LENGTH_MISMATCH
    /\ ~Less32(sysInfoLength, returnLength)

\* C17 as stated: whatever the kernel answers, an Update that is running
\* returns.
C17_UpdateAlwaysReturns == UpdateRunning ~> ~UpdateRunning

\* C17 amended: an Update that is running returns, unless the kernel answers
\* 'buffer too small' to a data query whose buffer was as large as the size it
\* reports as required.
C17_UpdateReturnsUnlessKernelMisreports ==
    UpdateRunning ~> (~UpdateRunning \/ KernelMisreported)

\* Update returned after the kernel raised the required size, query after
\* query, until 25% more than it no longer fitted in a ULONG
C17_Witness ==
    /\ ~UpdateRunning
    /\ sn_ret.called /\ ~sn_ret.ok /\ sn_ret.sErrorInfo = MsgOverflow
    /\ sn_retries = MaxRetries
    /\ Less32(sn_issued.prevRequired, sn_issued.required)
    /\ Less32(sn_issued.len, sn_issued.required) = FALSE

\* The indexes HandleInfo is asked for.
MaxIx == 3

\* C16: before any Update NumberOfHandles() is 0 and HandleInfo(ix) is nullptr
\* for every ix; after a successful Update HandleInfo(ix) is an entry (the
\* ix-th the kernel wrote, counted from 0) for ix < NumberOfHandles() and
\* nullptr for ix >= NumberOfHandles().
C16_HandleInfoWithinRange ==
    /\ sn_calls = 0 =>
          /\ NumberOfHandles(m_Mem, sn_buf) = 0
          /\ \A ix \in 0 .. MaxIx : HandleInfo(m_Mem, sn_buf, ix) = NullPtr
    /\ (sn_pc = "idle" /\ sn_ret.called /\ sn_ret.ok) =>
          /\ sn_buf.state = "filled"
          /\ NumberOfHandles(m_Mem, sn_buf) = Len(sn_buf.Handles)
          /\ \A ix \in 0 .. MaxIx :
                IF ix < NumberOfHandles(m_Mem, sn_buf)
                THEN /\ HandleInfo(m_Mem, sn_buf, ix) # NullPtr
                     /\ HandleInfo(m_Mem, sn_buf, ix) = sn_buf.Handles[ix + 1]
                ELSE HandleInfo(m_Mem, sn_buf, ix) = NullPtr

\* Update succeeded with two entries: indexes 0 and 1 give them, 2 gives nullptr
C16_Witness ==
    /\ sn_pc = "idle" /\ sn_ret.called /\ sn_ret.ok
    /\ NumberOfHandles(m_Mem, sn_buf) = 2
    /\ HandleInfo(m_Mem, sn_buf, 0) = HandleEntry(1, 4, 1)
    /\ HandleInfo(m_Mem, sn_buf, 1) = HandleEntry(2, 8, 2)
    /\ HandleInfo(m_Mem, sn_buf, 2) = NullPtr

\* C28: after Update has returned failure NumberOfHandles() is 0 and
\* HandleInfo(ix) is nullptr for every ix.
C28_NothingExposedAfterFailure ==
    (sn_pc = "idle" /\ sn_ret.called /\ ~sn_ret.ok) =>
        /\ NumberOfHandles(m_Mem, sn_buf) = 0
        /\ \A ix \in 0 .. MaxIx : HandleInfo(m_Mem, sn_buf, ix) = NullPtr

-----------------------------------------------------------------------------
(* Claims about discovery (SpecDiscovery) *)

\* The enumerated process d was recorded as a zombie: the pid lookup has it,
\* and the handle lookup holds a process-level handle for it.
RecordedAsZombie(d) ==
    /\ d.pid \in DOMAIN zombiePidLookup
    /\ \E h \in DOMAIN m_ZombieHandleLookup :
          /\ m_ZombieHandleLookup[h].PID = d.pid
          /\ m_ZombieHandleLookup[h].TID = 0

\* floor((now - exit) / 10^7) >= n, said without a division
ExitedSecondsAgo(d, n) ==
    d.exitTime < ulNow /\ ulNow - d.exitTime >= n * 10000000

Exited(d) == d.queryOk /\ d.IsProcessDeleting /\ d.exitTime # 0

C7_ZeroThresholdNoAgeFilter ==
    nAgeInSeconds = 0 =>
        \A i \in 1 .. Len(enumerated) :
            RecordedAsZombie(enumerated[i]) <=> Exited(enumerated[i])

\* threshold 0: a process that exited a second ago and one whose exit time is
\* not earlier than 'now' were both recorded
C7_Witness ==
    /\ nAgeInSeconds = 0
    /\ zh_ret.called /\ zh_ret.ok
    /\ \E i, j \in 1 .. Len(enumerated) :
          /\ ulNow - enumerated[i].exitTime = 10000000
          /\ RecordedAsZombie(enumerated[i])
          /\ enumerated[j].exitTime >= ulNow
          /\ RecordedAsZombie(enumerated[j])

QueryFailedWarning(i) ==
    [what |-> "NtQueryInformationProcess failed during enumeration", n |-> i]

WarningsAbout(i) ==
    {k \in DOMAIN processEnumErrors : processEnumErrors[k] = QueryFailedWarning(i)}

\* Nothing about the process is in the handle lookup or in the pid lookup.
NothingRecordedFor(d) ==
    /\ d.pid \notin DOMAIN zombiePidLookup
    /\ \A h \in DOMAIN m_ZombieHandleLookup : m_ZombieHandleLookup[h].PID # d.pid

\* The handle to the i-th process is treated as that of a live process: kept
\* open, marked to be closed, while it is the one the next process is obtained
\* from, and closed by the step after.
ClosedOnNextStep(i) ==
    IF i = Len(enumerated) /\ zh_pc = "enumerate"
    THEN /\ hPrevProcess = enumerated[i].handle
         /\ bClosePrevProcess
         /\ enumerated[i].handle \in DOMAIN procHandles
         /\ procHandles[enumerated[i].handle] = ProcObj(enumerated[i].pid)
    ELSE \A h \in DOMAIN procHandles : procHandles[h] # ProcObj(enumerated[i].pid)

\* C15: a process whose basic-information query failed has exactly one
\* warning, is not recorded as a zombie, is counted in the total, has its
\* handle closed by the next step; the enumeration goes on after it and the
\* call that enumerated it returns success.
C15_QueryFailureIsOneWarning ==
    /\ zh_nTotalProcesses = Len(enumerated)
    /\ \A i \in 1 .. Len(enumerated) :
          IF enumerated[i].queryOk
          THEN WarningsAbout(i) = {}
          ELSE /\ Cardinality(WarningsAbout(i)) = 1
               /\ NothingRecordedFor(enumerated[i])
               /\ ClosedOnNextStep(i)
               /\ zh_pc = "enumerate" \/ (zh_ret.called /\ zh_ret.ok)

\* the call returned success after a process whose query failed and, after
\* it, a process that was recorded as a zombie
C15_Witness ==
    /\ zh_pc = "idle" /\ zh_ret.called /\ zh_ret.ok
    /\ Len(enumerated) = 2
    /\ ~enumerated[1].queryOk
    /\ enumerated[1].IsProcessDeleting /\ enumerated[1].exitTime # 0
    /\ RecordedAsZombie(enumerated[2])
    /\ Len(processEnumErrors) = 1

\* C19: a process whose IsProcessDeleting is set and whose exit time is zero,
\* and a process whose IsProcessDeleting is not set, are not recorded as
\* zombies whatever the threshold: nothing in either lookup, not counted as a
\* zombie, no warning, the handle closed as for a live process.
C19_NoExitTimeOrNoFlagNeverRecorded ==
    /\ zh_nZombieProcesses =
          Cardinality({i \in 1 .. Len(enumerated) : RecordedAsZombie(enumerated[i])})
    /\ \A i \in 1 .. Len(enumerated) :
          (/\ enumerated[i].queryOk
           /\ \/ enumerated[i].IsProcessDeleting /\ enumerated[i].exitTime = 0
              \/ ~enumerated[i].IsProcessDeleting)
          => /\ NothingRecordedFor(enumerated[i])
             /\ WarningsAbout(i) = {}
             /\ ClosedOnNextStep(i)

\* with threshold 0, a process with the flag set and no exit time and a
\* process with an exit time and no flag were enumerated and the call returned
C19_Witness ==
    /\ zh_pc = "idle" /\ zh_ret.called /\ zh_ret.ok
    /\ nAgeInSeconds = 0
    /\ \E i, j \in 1 .. Len(enumerated) :
          /\ enumerated[i].queryOk /\ enumerated[i].IsProcessDeleting
          /\ enumerated[i].exitTime = 0
          /\ enumerated[j].queryOk /\ ~enumerated[j].IsProcessDeleting
          /\ enumerated[j].exitTime # 0
    /\ zh_nZombieProcesses = 0

ProcessEntries(pid) ==
    {h \in DOMAIN m_ZombieHandleLookup :
        m_ZombieHandleLookup[h].PID = pid /\ m_ZombieHandleLookup[h].TID = 0}

ThreadEntries(pid) ==
    {h \in DOMAIN m_ZombieHandleLookup :
        m_ZombieHandleLookup[h].PID = pid /\ m_ZombieHandleLookup[h].TID # 0}

SameProcessData(t, p) ==
    /\ t.PID = p.PID
    /\ t.sImagePath = p.sImagePath
    /\ t.createTime = p.createTime
    /\ t.exitTime = p.exitTime
    /\ t.ParentPID = p.ParentPID
    /\ t.sParentImagePath = p.sParentImagePath

\* C20: when discovery has returned success, every zombie process has exactly
\* one process entry (thread id 0) in the handle lookup, its nThreads is the
\* number of thread entries with its process id, every thread entry has the
\* process's id, image path, times and parent data, and the pid lookup has a
\* record equal to the process entry; every entry belongs to such a process.
C20_LookupsAgree ==
    (zh_pc = "idle" /\ zh_ret.called /\ zh_ret.ok) =>
        /\ \A i \in 1 .. Len(enumerated) :
              IsZombie(enumerated[i], nAgeInSeconds, ulNow)
                  => enumerated[i].pid \in DOMAIN zombiePidLookup
        /\ \A h \in DOMAIN m_ZombieHandleLookup :
              m_ZombieHandleLookup[h].PID \in DOMAIN zombiePidLookup
        /\ \A pid \in DOMAIN zombiePidLookup :
              /\ Cardinality(ProcessEntries(pid)) = 1
              /\ \A h \in ProcessEntries(pid) :
                    /\ m_ZombieHandleLookup[h].nThreads = Cardinality(ThreadEntries(pid))
                    /\ zombiePidLookup[pid] = m_ZombieHandleLookup[h]
                    /\ \A t \in ThreadEntries(pid) :
                          SameProcessData(m_ZombieHandleLookup[t], m_ZombieHandleLookup[h])

\* discovery returned after recording a zombie with a thread and a zombie
\* whose threads could not be walked
C20_Witness ==
    /\ zh_pc = "idle" /\ zh_ret.called /\ zh_ret.ok
    /\ \E p, q \in DOMAIN zombiePidLookup :
          /\ zombiePidLookup[p].nThreads = MaxThreads
          /\ ThreadEntries(p) # {}
          /\ zombiePidLookup[q].nThreads = 0
          /\ \E i \in 1 .. Len(enumerated) :
                enumerated[i].pid = q /\ ~enumerated[i].openQI

\* C21: over the Acquire calls on one ZombieHandles and its destruction no
\* handle is closed twice; a handle in the lookup is open; between calls the
\* open handles are those in the lookup; a call starts its enumeration with
\* the handles of the call before closed and the lookup empty; a release
\* empties the lookup, closes its handles and no others, and a second release
\* after it changes nothing; after destruction nothing is open.
C21_ReleaseClosesEachHandleOnce ==
    /\ EachClosedAtMostOnce(handleLog)
    /\ DOMAIN procHandles = OpenAfter(handleLog, Len(handleLog))
    /\ DOMAIN m_ZombieHandleLookup \subseteq DOMAIN procHandles
    /\ zh_pc = "idle" => DOMAIN procHandles = DOMAIN m_ZombieHandleLookup
    /\ (zh_pc = "enumerate" /\ enumerated = <<>>) =>
          /\ procHandles = EmptyMap
          /\ m_ZombieHandleLookup = EmptyMap
    /\ zh_pc = "destroyed" =>
          /\ procHandles = EmptyMap
          /\ m_ZombieHandleLookup = EmptyMap
    /\ LET r  == ReleaseAcquiredHandles(procHandles, m_ZombieHandleLookup)
           r2 == ReleaseAcquiredHandles(r.open, r.lookup)
       IN  /\ r.lookup = EmptyMap
           /\ DOMAIN r.open = DOMAIN procHandles \ DOMAIN m_ZombieHandleLookup
           /\ r2 = r

\* the object was destroyed after two calls, the second of which closed a
\* live process's handle at once and kept the handles of a zombie process and
\* its thread: the log ends with their closes
C21_Witness ==
    /\ zh_pc = "destroyed" /\ zh_calls = 2 /\ zh_ret.ok
    /\ \E i \in 1 .. Len(enumerated) :
          enumerated[i].IsProcessDeleting /\ enumerated[i].nThreads >= 1
    /\ \E i \in 1 .. Len(enumerated) : ~enumerated[i].IsProcessDeleting
    /\ Len(handleLog) >= 6
    /\ handleLog[Len(handleLog)].op = "close"
    /\ handleLog[Len(handleLog) - 1].op = "close"
    /\ handleLog[Len(handleLog)].h # handleLog[Len(handleLog) - 1].h
    /\ \E a, b \in 1 .. Len(handleLog) - 2 :
          /\ a < b
          /\ handleLog[a].op = "open" /\ handleLog[b].op = "close"
          /\ handleLog[a].h = handleLog[b].h

EnumerationFailedWarnings ==
    {k \in DOMAIN processEnumErrors :
        processEnumErrors[k].what = "Process enumeration failed"}

AcquireReturned == zh_pc = "idle" /\ zh_ret.called

\* C23: when the enumeration ended with a status other than 'no more
\* entries', the call returned success with exactly one enumeration warning,
\* the last of the list, and with every zombie enumerated before it recorded;
\* when it ended with 'no more entries' there is no such warning; a call that
\* returned failure could not resolve the ntdll entry points and enumerated
\* nothing.
C23_EnumerationFailureIsAWarning ==
    AcquireReturned =>
        /\ zh_ntGNP \notin {STATUS_SUCCESS, STATUS_NO_MORE_ENTRIES} =>
              /\ zh_ret.ok
              /\ EnumerationFailedWarnings = {Len(processEnumErrors)}
              /\ Len(processEnumErrors) =
                    1 + Cardinality({i \in 1 .. Len(enumerated) : ~enumerated[i].queryOk})
              /\ \A i \in 1 .. Len(enumerated) :
                    (Exited(enumerated[i])
                     /\ (nAgeInSeconds = 0
                         \/ ExitedSecondsAgo(enumerated[i], nAgeInSeconds)))
                        => RecordedAsZombie(enumerated[i])
        /\ zh_ntGNP = STATUS_NO_MORE_ENTRIES =>
              /\ zh_ret.ok
              /\ EnumerationFailedWarnings = {}
        /\ ~zh_ret.ok <=> zh_ntGNP = STATUS_SUCCESS
        /\ ~zh_ret.ok =>
              /\ zh_ret.sErrorInfo = "ERROR: Unable to load functions from ntdll.dll"
              /\ enumerated = <<>>
              /\ processEnumErrors = <<>>

\* the enumeration stopped with 'access denied' after a zombie with a thread
\* and a process whose query failed
C23_Witness ==
    /\ AcquireReturned /\ zh_ret.ok
    /\ zh_ntGNP = STATUS_ACCESS_DENIED
    /\ Len(enumerated) = 2
    /\ RecordedAsZombie(enumerated[1]) /\ enumerated[1].nThreads >= 1
    /\ ~enumerated[2].queryOk
    /\ Len(processEnumErrors) = 2

-----------------------------------------------------------------------------
(* Claims about HeapMem (SpecHeapMem) *)

-----------------------------------------------------------------------------
(* Claims about Ago (SpecAgo) *)

Labels(parts) == [i \in DOMAIN parts |-> parts[i].label]

HasUnit(parts, units) == \E i \in DOMAIN parts : parts[i].label \in units

DayUnits  == {" day ", " days "}
HourUnits == {" hour ", " hrs "}

\* C26: Ago(n) takes n apart into days, hours below 24, minutes below 60 and
\* seconds below 60 that add up to n; the seconds are written, last; the days
\* are written if and only if there are any; the hours if and only if they are
\* not zero or the days were written; the minutes if and only if they are not
\* zero or the hours or days were written; each number written is the one of
\* its unit, in the order days, hours, minutes, seconds; Ago(90) is
\* "1 min 30 secs" and Ago(100000) is "1 day 3 hrs 46 min 40 secs".
C26_AgoSplitsAndPrints ==
    ago_out.called =>
        LET t == AgoSplit(ago_n)
            p == ago_out.parts
        IN  /\ t.nHours \in 0 .. 23 /\ t.nMinutes \in 0 .. 59 /\ t.nSeconds \in 0 .. 59
            /\ t.nDays >= 0
            /\ t.nDays * 86400 + t.nHours * 3600 + t.nMinutes * 60 + t.nSeconds = ago_n
            /\ p[Len(p)] = Part(t.nSeconds, " secs")
            /\ HasUnit(p, DayUnits) <=> t.nDays > 0
            /\ HasUnit(p, HourUnits) <=> (t.nHours # 0 \/ HasUnit(p, DayUnits))
            /\ HasUnit(p, {" min "}) <=>
                  (t.nMinutes # 0 \/ HasUnit(p, HourUnits) \/ HasUnit(p, DayUnits))
            /\ \A i \in DOMAIN p :
                  /\ p[i].label \in DayUnits => (i = 1 /\ p[i].n = t.nDays)
                  /\ p[i].label \in HourUnits =>
                        (p[i].n = t.nHours /\ i = Len(p) - 2)
                  /\ p[i].label = " min " => (p[i].n = t.nMinutes /\ i = Len(p) - 1)
                  /\ p[i].label = " secs" => i = Len(p)
            /\ Len(p) <= 4
            /\ ago_n = 90 => ago_out.text = "1 min 30 secs"
            /\ ago_n = 100000 => ago_out.text = "1 day 3 hrs 46 min 40 secs"

\* Ago was given a whole number of days: hours and minutes are written as 0
C26_Witness ==
    /\ ago_out.called
    /\ ago_n = 2 * 86400
    /\ ago_out.text = "2 days 0 hrs 0 min 0 secs"

-----------------------------------------------------------------------------
(* Claims about the report (SpecReport) *)

\* The zombies a report lists: those in the owners' records and the
\* unexplained ones.
ReportedZombies ==
    UNION {{OwningInfoOf(q)[i].zombieInfo : i \in DOMAIN OwningInfoOf(q)}
           : q \in DOMAIN m_owners}
    \cup {m_unexplained[i] : i \in DOMAIN m_unexplained}

\* C29: after a successful Update the clock value wmain read before the call
\* is not less than the exit time of any zombie reported, whatever the
\* threshold: ulNow - exitTime does not wrap around.
C29_NowNotBeforeExit ==
    UpdateSucceeded => \A z \in ReportedZombies : wm_ulNow >= z.exitTime

-----------------------------------------------------------------------------
(* Claims about the pid-to-services lookup (SpecServices) *)

\* the call that has just returned, in a step that made one
LastCall == svc_log'[Len(svc_log')]

\* a call that reaches InitializeServiceLookup
ReachesInitialize(e) == e.op = "LookupServicesByPID" \/ e.opened

EarlierLookupsAgree ==
    \A k \in 1 .. Len(svc_log) :
        (svc_log[k].op = "LookupServicesByPID" /\ svc_log[k].pid = LastCall.pid)
            => /\ svc_log[k].ret = LastCall.ret
               /\ svc_log[k].pServiceList = LastCall.pServiceList

\* C30: the pid-to-services lookup is built at most once in a run, by the
\* first call that reaches its initialization (any LookupServicesByPID, or a
\* DumpPIDtoServiceLookupInfo whose output file could be created); once
\* initialized it is never built again or modified, even when the build
\* failed.  LookupServicesByPID(pid) returns true and a pointer to the list
\* of pid exactly when pid is a key of the lookup, otherwise false and a null
\* pointer, and two calls with the same pid give the same result.
C30_LookupBuiltOnce ==
    [][/\ Len(svc_log') = Len(svc_log) + 1
       /\ LastCall.built <=> (~bInitialized /\ ReachesInitialize(LastCall))
       /\ bInitialized' <=> (bInitialized \/ ReachesInitialize(LastCall))
       /\ bInitialized => ServiceLookupByPID' = ServiceLookupByPID
       /\ ~LastCall.built => ServiceLookupByPID' = ServiceLookupByPID
       /\ LastCall.op = "LookupServicesByPID" =>
              /\ LastCall.ret <=> LastCall.pid \in DOMAIN ServiceLookupByPID'
              /\ LastCall.pServiceList = IF LastCall.ret THEN ListAt(LastCall.pid)
                                         ELSE NullPtr
              /\ EarlierLookupsAgree]_vars

\* a dump that could not create its file, then a lookup that builds and finds
\* two services in the process, then the same lookup again
C30_Witness ==
    /\ Len(svc_log) = 3
    /\ svc_log[1].op = "DumpPIDtoServiceLookupInfo" /\ ~svc_log[1].opened
    /\ svc_log[2].op = "LookupServicesByPID" /\ svc_log[2].built /\ svc_log[2].ret
    /\ svc_log[3].op = "LookupServicesByPID" /\ ~svc_log[3].built
    /\ svc_log[3].pid = svc_log[2].pid /\ svc_log[3].ret
    /\ Len(ServiceLookupByPID[svc_log[2].pid]) = 2

\* C30 as stated: the lookup is built on the first call of either function
C30_BuiltOnFirstCall ==
    svc_log # <<>> => svc_log[1].built /\ bInitialized

-----------------------------------------------------------------------------
(* Claims about the command line (SpecCmdLine) *)

ParseErrors ==
    {"Missing arg for -secs", "Invalid arg for -secs", "Missing arg for -out",
     "Missing arg for -diag", "Unrecognized command-line option"}

\* wmain has exited on a command line made of switches it knows, each with its
\* argument.
ExitedOnParsedCommandLine ==
    /\ cl_pc = "exited"
    /\ "other" \notin cl_seen
    /\ cl_exit.msg \notin ParseErrors

\* C18: a command line that has -threads together with -details, -csv, -secs
\* or -diag is rejected: 'Invalid combination of switches', exit code -1, no
\* report.
C18_ThreadsOnlyWithOut ==
    (/\ ExitedOnParsedCommandLine
     /\ "threads" \in cl_seen
     /\ cl_seen \cap {"details", "csv", "secs", "diag"} # {})
    => /\ cl_exit = Usage("Invalid combination of switches")
       /\ cl_report = "none"

=============================================================================
